---- MODULE Spec2Model ----
(***************************************************************************)
(* Verification model of the evm-arb-service crate of DeFiArbitraje.       *)
(*                                                                         *)
(*   Spec          the orchestrator: main loop, scan_and_execute,          *)
(*                 scan_network and the PnLTracker circuit breaker         *)
(*                 (src/route.rs, src/main.rs)                             *)
(*   SpecQuote     one cross-dex route: quote_cross_dex_pair and the       *)
(*                 candidate handling of scan_network                      *)
(*                 (src/router.rs, src/dex.rs, src/route.rs)               *)
(*   SpecFailover  ChainClient::with_failover and switch_provider, one     *)
(*                 task calling (src/network.rs)                           *)
(*   SpecConcurrent  the same client shared by two tasks, one call each    *)
(***************************************************************************)
EXTENDS Integers, Sequences, FiniteSets, TLC

(* ------------------------------ bounds --------------------------------- *)
\* largest configured safety.circuit_breaker.max_losses_in_row
MaxLossesCfg == 2
\* largest configured safety.circuit_breaker.cooldown_sec
MaxCooldown == 2
\* the clock (whole seconds of Instant) runs from 0 to MaxTime
MaxTime == 4
\* number of configured networks
NumChains == 2
\* number of routes_cross_dex entries of each network
MaxRoutes == 2
\* largest number of RPC endpoints of a network
MaxEndpoints == 3
\* with_failover calls each caller makes one after the other
MaxCalls == 2
\* largest number of dexes of a network
MaxDexes == 2
\* largest number of names in a preferred-dexes list
MaxPreferred == 2
\* the small amounts and reserves given to amount_out_v2 run over 0..MaxUnits
MaxUnits == 4
\* largest number of entries of a dex's fee_tiers_bps
MaxTiers == 2

(* -------------------------- program constants -------------------------- *)
\* the basis-point denominator of min_out_bps and of the min-profit check
BpsDenom == 10000

\* Option<T>: the empty sequence is None, <<x>> is Some(x)
None == <<>>
Some(x) == <<x>>

\* Option::unwrap_or
UnwrapOr(opt, dflt) == IF opt = None THEN dflt ELSE opt[1]

VARIABLES
  \* ---- configuration (immutable after load) ----
  max_losses_in_row,   \* cfg.safety.circuit_breaker.max_losses_in_row
  cooldown_sec,        \* cfg.safety.circuit_breaker.cooldown_sec
  run_mode,            \* run_mode(): Some("SAFE"), Some("DRY") or None
  executors,           \* chains that have an Executor (StrategyEngine.executors)
  \* ---- PnLTracker ----
  consec_losses,
  last_loss_ts,        \* None or the Instant of the last loss
  \* ---- clock ----
  now,
  \* ---- position of the main loop ----
  pc,                  \* "sleep" | "chain" | "routes" | "stopped"
  chainIdx,            \* index into chain_ids of scan_and_execute
  routeIdx,            \* index into routes_cross_dex of scan_network
  any_success,         \* local of scan_network
  \* ---- observation of the current / last scan_network call ----
  scan,                \* record, see NoScan
  \* ---- one route of scan_network (SpecQuote) ----
  slippage_bps_default,  \* cfg.global.quote.slippage_bps_default
  strategy_overrides,    \* Network.strategy_overrides: None or Some(record)
  qpc,                 \* position inside the route iteration
  route_kind,          \* "pair": quote_cross_dex_pair, "triangle": quote_triangle
  amount_in,           \* amount_in of quote_cross_dex_pair
  amount,              \* running amount of quote_cross_dex_pair
  legs,                \* number of legs pushed so far
  qres,                \* result of quote_cross_dex_pair: "Err", "None", "Some"
  calldata,            \* None or Some(fields given to encode_route_calldata)
  sent,                \* None or Some(the payload given to exec.execute)
  events,              \* calls made for the candidate, in order
  \* ---- one call of a function of router.rs (SpecAdapter, SpecTriangle) ----
  fn_in,               \* the arguments and what the chain answers
  fn_out,              \* None, or Some(what the function returned)
  \* ---- ChainClient (SpecFailover) ----
  endpoints,           \* endpoints.len(); the endpoints are 0..endpoints-1
  url_ok,              \* url_ok[i]: build_provider(endpoints[i]) returns Ok
  current_index,       \* ClientState.current_index
  provider,            \* ClientState.provider: the endpoint it was built for
  callers,             \* tasks that call with_failover on this client
  fpc,                 \* position of each caller inside with_failover
  iter,                \* loop counter of with_failover
  my_provider,         \* local `provider` of with_failover
  next_idx,            \* local `next_idx` of switch_provider
  last_err,            \* local `last_err` of with_failover
  result,              \* what the call returned
  tried,               \* per call: the attempts made, in order
  prev,                \* the call that returned last: first and last endpoint
  calls                \* calls begun by each caller

engineVars == <<max_losses_in_row, cooldown_sec, run_mode, executors,
                consec_losses, last_loss_ts, now, pc, chainIdx, routeIdx,
                any_success, scan>>

fnVars == <<fn_in, fn_out>>
routeVars == <<slippage_bps_default, strategy_overrides, qpc, route_kind, amount_in,
               amount, legs, qres, calldata, sent, events>>
quoteVars == <<routeVars, fnVars>>

failVars == <<endpoints, url_ok, current_index, provider, callers, fpc, iter,
              my_provider, next_idx, last_err, result, tried, prev, calls>>

vars == <<engineVars, quoteVars, failVars>>

(* ------------------------------ PnLTracker ------------------------------ *)

\* u32::saturating_add(1).  on_loss runs only after the gate of scan_network
\* found consec_losses < max_losses_in_row <= u32::MAX, so the sum never
\* reaches the saturation point and is the plain successor.
SatInc(x) == x + 1

\* Instant::elapsed() of the stored timestamp, in whole seconds
Elapsed(ts) == now - ts

\* should_cooldown with the window closed one second late
ShouldCooldownInclusive(cd) ==
  IF consec_losses = 0 THEN FALSE
  ELSE IF last_loss_ts = None THEN FALSE
  ELSE Elapsed(last_loss_ts[1]) <= cd

\* should_cooldown with the comparison turned round
ShouldCooldownReversed(cd) ==
  IF consec_losses = 0 THEN FALSE
  ELSE IF last_loss_ts = None THEN FALSE
  ELSE Elapsed(last_loss_ts[1]) > cd

ShouldCooldown(cd) ==
  IF consec_losses = 0 THEN FALSE
  ELSE IF last_loss_ts = None THEN FALSE
  ELSE Elapsed(last_loss_ts[1]) < cd

\* on_success that resets the counter and keeps the timestamp
OnSuccessKeepsStamp ==
  /\ consec_losses' = 0
  /\ UNCHANGED last_loss_ts

OnSuccess ==
  /\ consec_losses' = 0
  /\ last_loss_ts' = None

\* on_loss that counts the loss but keeps the old timestamp
OnLossStaleStamp ==
  /\ consec_losses' = SatInc(consec_losses)
  /\ last_loss_ts' = IF last_loss_ts = None THEN Some(now) ELSE last_loss_ts

OnLoss ==
  /\ consec_losses' = SatInc(consec_losses)
  /\ last_loss_ts' = Some(now)

\* the max-losses gate with a strict comparison
MaxLossesReachedStrict(losses, max_losses) == losses > max_losses

\* scan_network, line 222
MaxLossesReached(losses, max_losses) == losses >= max_losses

(* --------------------- classification of the breaker -------------------- *)
\* The states of the circuit breaker as the specification names them.
Tripped == consec_losses >= max_losses_in_row
InCooldown == last_loss_ts # None /\ now - last_loss_ts[1] < cooldown_sec
Normal == ~Tripped /\ ~InCooldown

NoScan == [chain |-> 0, result |-> "none", entryTripped |-> FALSE,
           entryCooldown |-> FALSE, entryLosses |-> 0,
           quotes |-> 0, logs |-> 0, sims |-> 0, simErr |-> 0,
           execs |-> 0, execOk |-> 0]

(* ------------------------- src/route.rs, main.rs ------------------------ *)

cfgVars == <<max_losses_in_row, cooldown_sec, run_mode, executors>>
pnlVars == <<consec_losses, last_loss_ts>>

\* the route variables while no route is being evaluated
RouteIdle ==
  /\ slippage_bps_default = 0
  /\ strategy_overrides = None
  /\ qpc = "idle"
  /\ route_kind = "pair"
  /\ amount_in = 0
  /\ amount = 0
  /\ legs = 0
  /\ qres = "pending"
  /\ calldata = None
  /\ sent = None
  /\ events = <<>>

\* ... and no single function call is modelled
QuoteIdle == RouteIdle /\ fn_in = None /\ fn_out = None

Callers == {"a", "b"}

NoResult == [tag |-> "none", err |-> None]

\* MultiChain::from_config builds the provider of rpc[0]; the other URLs are
\* first parsed when switch_provider reaches them.
InitClient(n, ok, cs) ==
  /\ endpoints = n
  /\ url_ok = ok
  /\ current_index = 0
  /\ provider = 0
  /\ callers = cs
  /\ fpc = [c \in Callers |-> "idle"]
  /\ iter = [c \in Callers |-> 0]
  /\ my_provider = [c \in Callers |-> 0]
  /\ next_idx = [c \in Callers |-> 0]
  /\ last_err = [c \in Callers |-> None]
  /\ result = [c \in Callers |-> NoResult]
  /\ tried = [c \in Callers |-> <<>>]
  /\ prev = None
  /\ calls = [c \in Callers |-> 0]

\* the client while no with_failover call is modelled
ClientIdle == InitClient(1, [i \in {0} |-> TRUE], {})

InitEngine ==
  /\ max_losses_in_row \in 0..MaxLossesCfg
  /\ cooldown_sec \in 0..MaxCooldown
  /\ run_mode \in {Some("SAFE"), Some("DRY"), None}
  /\ executors \in SUBSET (1..NumChains)
  /\ consec_losses = 0          \* PnLTracker::new
  /\ last_loss_ts = None
  /\ now = 0
  /\ pc = "sleep"
  /\ chainIdx = 0
  /\ routeIdx = 0
  /\ any_success = FALSE
  /\ scan = NoScan

\* The monotonic clock advances; nothing else changes.
Tick ==
  /\ pc # "stopped"
  /\ now < MaxTime
  /\ now' = now + 1
  /\ UNCHANGED <<cfgVars, pnlVars, pc, chainIdx, routeIdx, any_success, scan>>

\* main loop: the poll sleep is over, scan_and_execute starts with the
\* first entry of chain_ids.
TickStart ==
  /\ pc = "sleep"
  /\ pc' = "chain"
  /\ chainIdx' = 1
  /\ UNCHANGED <<cfgVars, pnlVars, now, routeIdx, any_success, scan>>

\* gates that count a skipped scan as one more loss
ScanGateSkipCountsLoss ==
  /\ pc = "chain"
  /\ chainIdx <= NumChains
  /\ LET entry == [NoScan EXCEPT !.chain = chainIdx,
                                 !.entryTripped = Tripped,
                                 !.entryCooldown = InCooldown,
                                 !.entryLosses = consec_losses]
     IN  IF ShouldCooldown(cooldown_sec)
         THEN /\ scan' = [entry EXCEPT !.result = "skipped_cooldown"]
              /\ chainIdx' = chainIdx + 1
              /\ OnLoss
              /\ UNCHANGED <<pc, routeIdx, any_success>>
         ELSE IF MaxLossesReached(consec_losses, max_losses_in_row)
         THEN /\ scan' = [entry EXCEPT !.result = "skipped_tripped"]
              /\ chainIdx' = chainIdx + 1
              /\ OnLoss
              /\ UNCHANGED <<pc, routeIdx, any_success>>
         ELSE /\ scan' = [entry EXCEPT !.result = "running"]
              /\ pc' = "routes"
              /\ routeIdx' = 1
              /\ any_success' = FALSE
              /\ UNCHANGED <<chainIdx, pnlVars>>
  /\ UNCHANGED <<cfgVars, now>>

\* scan_network, lines 203-248: the cooldown gate, the max-losses gate and
\* the initialisation of any_success.
ScanGate ==
  /\ pc = "chain"
  /\ chainIdx <= NumChains
  /\ LET entry == [NoScan EXCEPT !.chain = chainIdx,
                                 !.entryTripped = Tripped,
                                 !.entryCooldown = InCooldown,
                                 !.entryLosses = consec_losses]
     IN  IF ShouldCooldown(cooldown_sec)
         THEN /\ scan' = [entry EXCEPT !.result = "skipped_cooldown"]
              /\ chainIdx' = chainIdx + 1
              /\ UNCHANGED <<pc, routeIdx, any_success>>
         ELSE IF MaxLossesReached(consec_losses, max_losses_in_row)
         THEN /\ scan' = [entry EXCEPT !.result = "skipped_tripped"]
              /\ chainIdx' = chainIdx + 1
              /\ UNCHANGED <<pc, routeIdx, any_success>>
         ELSE /\ scan' = [entry EXCEPT !.result = "running"]
              /\ pc' = "routes"
              /\ routeIdx' = 1
              /\ any_success' = FALSE
              /\ UNCHANGED chainIdx
  /\ UNCHANGED <<cfgVars, pnlVars, now>>

\* a dry run that is honoured for SAFE_LAUNCH only
SendsTxUnlessSafe(mode) == mode # Some("SAFE")

\* route.rs line 368: the transaction is sent unless run_mode() is Some
SendsTx(mode) == mode = None

\* a simulate whose failure drops the candidate
ProceedAfterSimulateOkOnly(sim) == sim = "Ok"

\* route.rs line 364: `let _ = exec.simulate(..).await` drops the result
ProceedAfterSimulate(sim) == TRUE

\* What quote_cross_dex_pair can hand back to scan_network, with the number
\* of quote_on_dex calls it made: an error or a not-found after the first or
\* the second leg, or an accepted QuoteResult after both.
QuoteOutcomes ==
  {[tag |-> t, legs |-> n] : t \in {"Err", "None"}, n \in {1, 2}}
    \cup {[tag |-> "Some", legs |-> 2]}

\* a main loop that lets the error of scan_and_execute end the process
AbortScanExits(sc) ==
  /\ scan' = [sc EXCEPT !.result = "error"]
  /\ pc' = "stopped"
  /\ UNCHANGED <<chainIdx, any_success, pnlVars>>

\* a scan whose error is counted as a loss
AbortScanCountsLoss(sc) ==
  /\ scan' = [sc EXCEPT !.result = "error"]
  /\ pc' = "sleep"
  /\ OnLoss
  /\ UNCHANGED <<chainIdx, any_success>>

\* scan_and_execute: scan_network(...).await? returned Err, the tick ends
\* and main logs the error and sleeps.
AbortScan(sc) ==
  /\ scan' = [sc EXCEPT !.result = "error"]
  /\ pc' = "sleep"
  /\ UNCHANGED <<chainIdx, any_success, pnlVars>>

NextRoute(sc, succ) ==
  /\ scan' = sc
  /\ routeIdx' = routeIdx + 1
  /\ any_success' = succ
  /\ UNCHANGED <<pc, chainIdx, pnlVars>>

\* scan_network, lines 251-389: one iteration of the routes_cross_dex loop.
\*   filt    the strategy filters and skip_pair_by_risk let the pair pass
\*   addr    addr_of finds both tokens of the pair
\*   dexes   the route names two exchanges that are configured
\*   q       the result of quote_cross_dex_pair
\*   profit  profit >= min_profit
\*   sim     the result of exec.simulate
\*   ex      the result of exec.execute
ScanRoute ==
  /\ pc = "routes"
  /\ routeIdx <= MaxRoutes
  /\ \E filt \in BOOLEAN, addr \in BOOLEAN, dexes \in BOOLEAN,
        q \in QuoteOutcomes, profit \in BOOLEAN,
        sim \in {"Ok", "Err"}, ex \in {"Ok", "Err"} :
       IF ~filt THEN NextRoute(scan, any_success)
       ELSE IF ~addr THEN AbortScan(scan) /\ UNCHANGED routeIdx
       ELSE IF ~dexes THEN NextRoute(scan, any_success)
       ELSE LET s1 == [scan EXCEPT !.quotes = @ + q.legs] IN
         IF q.tag = "Err" THEN AbortScan(s1) /\ UNCHANGED routeIdx
         ELSE IF q.tag = "None" THEN NextRoute(s1, any_success)
         ELSE IF ~profit THEN NextRoute(s1, any_success)
         ELSE LET s2 == [s1 EXCEPT !.logs = @ + 1] IN
           IF chainIdx \notin executors THEN NextRoute(s2, any_success)
           ELSE LET s3 == [s2 EXCEPT !.sims = @ + 1,
                                     !.simErr = IF sim = "Err" THEN @ + 1 ELSE @] IN
             IF ~(ProceedAfterSimulate(sim) /\ SendsTx(run_mode))
             THEN NextRoute(s3, any_success)
             ELSE LET s4 == [s3 EXCEPT !.execs = @ + 1] IN
               IF ex = "Ok"
               THEN NextRoute([s4 EXCEPT !.execOk = @ + 1], TRUE)
               ELSE NextRoute(s4, any_success)
  /\ UNCHANGED <<cfgVars, now>>

\* an end of scan that records a loss only for a scan that sent a transaction
ScanEndCountsExecsOnly ==
  /\ pc = "routes"
  /\ routeIdx > MaxRoutes
  /\ IF any_success THEN OnSuccess
     ELSE IF scan.execs > 0 THEN OnLoss
     ELSE UNCHANGED pnlVars
  /\ scan' = [scan EXCEPT !.result = "done"]
  /\ pc' = "chain"
  /\ chainIdx' = chainIdx + 1
  /\ UNCHANGED <<cfgVars, now, routeIdx, any_success>>

\* scan_network, lines 392-455: the triangle loop quotes nothing (its
\* addr_of lookups succeed on a validated configuration), then the tracker
\* is updated from any_success and the scan returns Ok.
ScanEnd ==
  /\ pc = "routes"
  /\ routeIdx > MaxRoutes
  /\ IF any_success THEN OnSuccess ELSE OnLoss
  /\ scan' = [scan EXCEPT !.result = "done"]
  /\ pc' = "chain"
  /\ chainIdx' = chainIdx + 1
  /\ UNCHANGED <<cfgVars, now, routeIdx, any_success>>

\* scan_and_execute returns Ok after the last chain; main sleeps.
TickEnd ==
  /\ pc = "chain"
  /\ chainIdx > NumChains
  /\ pc' = "sleep"
  /\ UNCHANGED <<cfgVars, pnlVars, now, chainIdx, routeIdx, any_success, scan>>

\* main, lines 86-100: shutdown_signal() completes; select! drops the other
\* branch at whatever await it is suspended on and the loop breaks.
Shutdown ==
  /\ pc # "stopped"
  /\ pc' = "stopped"
  /\ scan' = IF pc = "routes" THEN [scan EXCEPT !.result = "cancelled"] ELSE scan
  /\ UNCHANGED <<cfgVars, pnlVars, now, chainIdx, routeIdx, any_success>>

Init == InitEngine /\ QuoteIdle /\ ClientIdle

Next ==
  \/ Tick /\ UNCHANGED <<quoteVars, failVars>>
  \/ TickStart /\ UNCHANGED <<quoteVars, failVars>>
  \/ ScanGate /\ UNCHANGED <<quoteVars, failVars>>
  \/ ScanRoute /\ UNCHANGED <<quoteVars, failVars>>
  \/ ScanEnd /\ UNCHANGED <<quoteVars, failVars>>
  \/ TickEnd /\ UNCHANGED <<quoteVars, failVars>>
  \/ Shutdown /\ UNCHANGED <<quoteVars, failVars>>

Spec == Init /\ [][Next]_vars

\* main, lines 85-101, while shutdown_signal() stays pending: the select!
\* keeps polling the scanning branch, and the poll sleep
\* (tokio::time::sleep of poll_ms) completes.
NextNoSignal ==
  \/ Tick /\ UNCHANGED <<quoteVars, failVars>>
  \/ TickStart /\ UNCHANGED <<quoteVars, failVars>>
  \/ ScanGate /\ UNCHANGED <<quoteVars, failVars>>
  \/ ScanRoute /\ UNCHANGED <<quoteVars, failVars>>
  \/ ScanEnd /\ UNCHANGED <<quoteVars, failVars>>
  \/ TickEnd /\ UNCHANGED <<quoteVars, failVars>>

SpecNoSignal ==
  Init /\ [][NextNoSignal]_vars /\ WF_vars(TickStart /\ UNCHANGED <<quoteVars, failVars>>)

(* ------------------- src/router.rs, dex.rs: one route ------------------- *)

\* token decimals of the configured pairs; amount_in is one whole token
Decimals == {1, 2}
\* non-zero outputs an adapter can report for a leg
LegOuts == {9, 10, 11, 99, 100, 101, 102, 201, 202}
(* ------------------ src/router.rs quote_on_dex, dex.rs ------------------ *)

\* what an on-chain address lookup answers
Lookups == {"zero", "addr", "rpc_err"}

\* what the reads of one v3 fee tier answer: no pool, a pool that quotes
\* zero, a pool that quotes, a failed call
TierReads == {"no_pool", "zero_out", "quoted", "rpc_err"}

(* U256 values that do not fit a model integer: little-endian sequences of
   limbs in base WBase without leading zero limbs; <<>> is zero.  The
   operators below are U256's from, +, *, <= and /. *)
WBase == 10000

RECURSIVE WFromInt(_)
WFromInt(n) == IF n = 0 THEN <<>> ELSE <<n % WBase>> \o WFromInt(n \div WBase)

RECURSIVE WToInt(_)
WToInt(w) == IF w = <<>> THEN 0 ELSE w[1] + WBase * WToInt(Tail(w))

RECURSIVE WTrim(_)
WTrim(w) ==
  IF w = <<>> THEN <<>>
  ELSE IF w[Len(w)] = 0 THEN WTrim(SubSeq(w, 1, Len(w) - 1))
  ELSE w

\* carries propagated through limbs that may exceed WBase
RECURSIVE WCarry(_, _)
WCarry(w, c) ==
  IF w = <<>> THEN WFromInt(c)
  ELSE <<(w[1] + c) % WBase>> \o WCarry(Tail(w), (w[1] + c) \div WBase)

WLimb(w, i) == IF i >= 1 /\ i <= Len(w) THEN w[i] ELSE 0

WAdd(a, b) ==
  LET n == IF Len(a) > Len(b) THEN Len(a) ELSE Len(b)
  IN  WTrim(WCarry([i \in 1..n |-> WLimb(a, i) + WLimb(b, i)], 0))

RECURSIVE WConv(_, _, _, _)
WConv(a, b, k, i) ==
  IF i > Len(a) THEN 0
  ELSE a[i] * WLimb(b, k - i + 1) + WConv(a, b, k, i + 1)

WMul(a, b) ==
  IF a = <<>> \/ b = <<>> THEN <<>>
  ELSE WTrim(WCarry([k \in 1..(Len(a) + Len(b) - 1) |-> WConv(a, b, k, 1)], 0))

RECURSIVE WLeq(_, _)
WLeq(a, b) ==
  IF Len(a) # Len(b) THEN Len(a) < Len(b)
  ELSE IF a = <<>> THEN TRUE
  ELSE IF a[Len(a)] # b[Len(b)] THEN a[Len(a)] < b[Len(b)]
  ELSE WLeq(WTrim(SubSeq(a, 1, Len(a) - 1)), WTrim(SubSeq(b, 1, Len(b) - 1)))

\* the largest k in lo..hi with k * d <= r
RECURSIVE WDigit(_, _, _, _)
WDigit(r, d, lo, hi) ==
  IF lo = hi THEN lo
  ELSE LET mid == (lo + hi + 1) \div 2
       IN  IF WLeq(WMul(WFromInt(mid), d), r) THEN WDigit(r, d, mid, hi)
           ELSE WDigit(r, d, lo, mid - 1)

\* r - k * d for k = WDigit(r, d, ..): the x with k * d + x = r
RECURSIVE WSubLimbs(_, _, _)
WSubLimbs(a, b, borrow) ==
  IF a = <<>> THEN <<>>
  ELSE LET v == a[1] - WLimb(b, 1) - borrow
           t == IF b = <<>> THEN <<>> ELSE Tail(b)
       IN  IF v < 0 THEN <<v + WBase>> \o WSubLimbs(Tail(a), t, 1)
           ELSE <<v>> \o WSubLimbs(Tail(a), t, 0)

\* long division, most significant limb first: <<quotient, remainder>>
RECURSIVE WDivMod(_, _)
WDivMod(n, d) ==
  IF n = <<>> THEN <<(<<>>), (<<>>)>>
  ELSE LET up == WDivMod(Tail(n), d)
           r == WTrim(<<n[1]>> \o up[2])
           k == WDigit(r, d, 0, WBase - 1)
       IN  <<WTrim(<<k>> \o up[1]), WTrim(WSubLimbs(r, WMul(WFromInt(k), d), 0))>>

\* amount_out_v2 with the quotient rounded up
AmountOutV2RoundUp(ain, reserve_in, reserve_out, fee_bps) ==
  IF ain = 0 \/ reserve_in = 0 \/ reserve_out = 0 THEN 0
  ELSE LET fee == WFromInt(BpsDenom - fee_bps)
           amount_in_with_fee == WMul(WFromInt(ain), fee)
           numerator == WMul(amount_in_with_fee, WFromInt(reserve_out))
           denominator == WAdd(WMul(WFromInt(reserve_in), WFromInt(BpsDenom)),
                               amount_in_with_fee)
           qr == WDivMod(numerator, denominator)
       IN  WToInt(qr[1]) + (IF qr[2] = <<>> THEN 0 ELSE 1)

\* amount_out_v2 that takes no fee from the input
AmountOutV2NoFee(ain, reserve_in, reserve_out, fee_bps) ==
  IF ain = 0 \/ reserve_in = 0 \/ reserve_out = 0 THEN 0
  ELSE LET amount_in_with_fee == WMul(WFromInt(ain), WFromInt(BpsDenom))
           numerator == WMul(amount_in_with_fee, WFromInt(reserve_out))
           denominator == WAdd(WMul(WFromInt(reserve_in), WFromInt(BpsDenom)),
                               amount_in_with_fee)
       IN  WToInt(WDivMod(numerator, denominator)[1])

\* dex.rs amount_out_v2; the same U256 arithmetic on model integers where
\* they are wide enough, on limbs where they are not
AmountOutV2(ain, reserve_in, reserve_out, fee_bps) ==
  IF ain = 0 \/ reserve_in = 0 \/ reserve_out = 0 THEN 0
  ELSE IF /\ ain <= 40000 /\ reserve_out <= 40000 /\ reserve_in <= 100000
          /\ ain * reserve_out <= 200000
  THEN LET amount_in_with_fee == ain * (BpsDenom - fee_bps)
       IN  (amount_in_with_fee * reserve_out)
             \div (reserve_in * BpsDenom + amount_in_with_fee)
  ELSE LET fee == WFromInt(BpsDenom - fee_bps)
           amount_in_with_fee == WMul(WFromInt(ain), fee)
           numerator == WMul(amount_in_with_fee, WFromInt(reserve_out))
           denominator == WAdd(WMul(WFromInt(reserve_in), WFromInt(BpsDenom)),
                               amount_in_with_fee)
       IN  WToInt(WDivMod(numerator, denominator)[1])

\* dex.rs ensure_not_zero
EnsureNotZero(addr) == IF addr = "zero" THEN "Err" ELSE "Ok"

\* a DexConfig together with what the chain answers to the reads made for
\* it; reserves is the (reserve_in, reserve_out) that getReserves reports
DexV2 ==
  [ty : {"v2"}, factory_ok : BOOLEAN, router_ok : BOOLEAN, pancake : BOOLEAN,
   pair : Lookups, reserves : {None, Some(<<0, 0>>), Some(<<1000, 1>>), Some(<<100, 300>>)}]
DexV3 ==
  [ty : {"v3"}, factory_ok : BOOLEAN, router_ok : BOOLEAN,
   quoter : {"none", "unknown", "addr"},
   tiers : {<<>>} \cup {<<a>> : a \in TierReads}
             \cup {<<a, b>> : a \in TierReads, b \in TierReads}]
DexSolidly ==
  [ty : {"solidly"}, factory_ok : BOOLEAN, router_ok : BOOLEAN, stable_pools : BOOLEAN,
   volatile : Lookups, stable : Lookups, out : {"zero_out", "quoted", "rpc_err"}]
DexOther == [ty : {"other"}]
DexInputs == DexV2 \cup DexV3 \cup DexSolidly \cup DexOther

LegErr == [tag |-> "Err", out |-> 0]
LegNone == [tag |-> "None", out |-> 0]
LegSome(v) == [tag |-> "Some", out |-> v]

\* router.rs lines 61-104: the "v2" arm of quote_on_dex
QuoteV2(d, ain) ==
  IF ~d.factory_ok THEN LegErr
  ELSE IF d.pair = "rpc_err" THEN LegErr
  ELSE IF EnsureNotZero(d.pair) = "Err" THEN LegErr
  ELSE IF d.reserves = None THEN LegErr
  ELSE LET out == AmountOutV2(ain, d.reserves[1][1], d.reserves[1][2],
                              IF d.pancake THEN 25 ELSE 30)
       IN  IF out = 0 THEN LegNone
           ELSE IF ~d.router_ok THEN LegErr
           ELSE LegSome(out)

\* what the "v3" arm did: its result, the place in the list of the tier it
\* returned (0 for none) and the number of tiers it read
V3Run(tag, out, tier, visited) ==
  [tag |-> tag, out |-> out, tier |-> tier, visited |-> visited]

\* a loop over the fee tiers that goes on after a quote and keeps the last
RECURSIVE V3TierLoopLastFit(_, _, _)
V3TierLoopLastFit(tiers, i, v) ==
  IF i > Len(tiers) THEN V3Run("None", 0, 0, i - 1)
  ELSE IF tiers[i] = "rpc_err" THEN V3Run("Err", 0, 0, i)
  ELSE LET rest == V3TierLoopLastFit(tiers, i + 1, v)
       IN  IF tiers[i] \in {"no_pool", "zero_out"} \/ rest.tag # "None" THEN rest
           ELSE V3Run("Some", v, i, rest.visited)

\* router.rs lines 135-164: the loop over the fee tiers, from tier i on
RECURSIVE V3TierLoop(_, _, _)
V3TierLoop(tiers, i, v) ==
  IF i > Len(tiers) THEN V3Run("None", 0, 0, i - 1)
  ELSE IF tiers[i] = "rpc_err" THEN V3Run("Err", 0, 0, i)
  ELSE IF tiers[i] \in {"no_pool", "zero_out"} THEN V3TierLoop(tiers, i + 1, v)
  ELSE V3Run("Some", v, i, i)

\* router.rs lines 105-166: the "v3" arm of quote_on_dex and the reads it made
QuoteV3Run(d, v) ==
  IF ~d.factory_ok \/ ~d.router_ok THEN V3Run("Err", 0, 0, 0)
  ELSE IF d.quoter = "unknown" THEN V3Run("Err", 0, 0, 0)
  ELSE IF d.quoter = "none" THEN V3Run("None", 0, 0, 0)
  ELSE V3TierLoop(d.tiers, 1, v)

\* router.rs lines 105-166: the "v3" arm of quote_on_dex
QuoteV3(d, v) ==
  LET r == QuoteV3Run(d, v) IN [tag |-> r.tag, out |-> r.out]

\* router.rs lines 167-216: the "solidly" arm of quote_on_dex
QuoteSolidly(d, v) ==
  IF ~d.factory_ok \/ ~d.router_ok THEN LegErr
  ELSE IF d.volatile = "rpc_err" THEN LegErr
  ELSE LET second == d.volatile = "zero" /\ d.stable_pools
           pair_addr == IF second THEN d.stable ELSE d.volatile
       IN  IF pair_addr = "rpc_err" THEN LegErr
           ELSE IF pair_addr = "zero" THEN LegNone
           ELSE IF d.out = "rpc_err" THEN LegErr
           ELSE IF d.out = "zero_out" THEN LegNone
           ELSE LegSome(v)

\* router.rs quote_on_dex for token symbols the network has; v is the
\* non-zero amount a quoter or a solidly pair answers with
QuoteOnDex(d, ain, v) ==
  IF d.ty = "v2" THEN QuoteV2(d, ain)
  ELSE IF d.ty = "v3" THEN QuoteV3(d, v)
  ELSE IF d.ty = "solidly" THEN QuoteSolidly(d, v)
  ELSE LegNone

\* utils.rs u256_from_decimals(1.0, dec)
U256FromDecimals(dec) == IF dec = 1 THEN 10 ELSE 100

\* min_out_bps that adds the slippage to the quote
MinOutBpsAdded(quoted_out, slippage_bps) ==
  (quoted_out * (BpsDenom + slippage_bps)) \div BpsDenom

\* dex.rs min_out_bps; U256 subtraction panics when slippage_bps > 10000
MinOutBps(quoted_out, slippage_bps) ==
  (quoted_out * (BpsDenom - slippage_bps)) \div BpsDenom

\* route.rs network_slippage_bps
NetworkSlippageBps ==
  IF strategy_overrides # None /\ strategy_overrides[1].slippage_bps # None
  THEN strategy_overrides[1].slippage_bps[1]
  ELSE slippage_bps_default

\* a minimum profit read from the wrong field of the override
NetworkMinProfitBpsFromSlippage ==
  IF strategy_overrides # None /\ strategy_overrides[1].slippage_bps # None
  THEN strategy_overrides[1].slippage_bps[1]
  ELSE 0

\* route.rs network_min_profit_bps
NetworkMinProfitBps ==
  IF strategy_overrides # None /\ strategy_overrides[1].min_profit_bps # None
  THEN strategy_overrides[1].min_profit_bps[1]
  ELSE 0

\* the acceptance test with the slippage floor allowed to equal the input
RouteRejectedLax(amt, ain, slip) ==
  MinOutBps(amt, slip) < ain \/ amt <= ain

\* router.rs lines 272-278: the two early returns of quote_cross_dex_pair
RouteRejected(amt, ain, slip) ==
  MinOutBps(amt, slip) <= ain \/ amt <= ain

\* Config::validate bounds the default by 5000; the per-network override is
\* not validated.
Overrides ==
  {None} \cup {Some([slippage_bps |-> sl, min_profit_bps |-> mp]) :
                 sl \in {None, Some(0), Some(5000), Some(10001)},
                 mp \in {None, Some(200)}}

InitQuote ==
  /\ max_losses_in_row = 1
  /\ cooldown_sec = 0
  /\ run_mode \in {Some("SAFE"), Some("DRY"), None}
  /\ executors \in SUBSET {1}
  /\ consec_losses = 0
  /\ last_loss_ts = None
  /\ now = 0
  /\ pc = "routes"
  /\ chainIdx = 1
  /\ routeIdx = 1
  /\ any_success = FALSE
  /\ scan = [NoScan EXCEPT !.chain = 1, !.result = "running"]
  /\ slippage_bps_default \in {0, 50, 5000}
  /\ strategy_overrides \in Overrides
  /\ qpc = "idle"
  /\ route_kind = "pair"
  /\ amount_in = 0
  /\ amount = 0
  /\ legs = 0
  /\ qres = "pending"
  /\ calldata = None
  /\ sent = None
  /\ events = <<>>
  /\ fn_in = None
  /\ fn_out = None
  /\ ClientIdle

qCfg == <<slippage_bps_default, strategy_overrides>>

\* route.rs lines 325-331 and router.rs 230-234 (316-319 for a triangle,
\* which scan_network does not quote: its body is a TODO)
QuoteStart ==
  /\ qpc = "idle"
  /\ route_kind' \in {"pair", "triangle"}
  /\ \E dec \in Decimals :
       /\ amount_in' = U256FromDecimals(dec)
       /\ amount' = U256FromDecimals(dec)
  /\ legs' = 0
  /\ qres' = "pending"
  /\ calldata' = None
  /\ sent' = None
  /\ events' = <<>>
  /\ qpc' = "leg1"
  /\ UNCHANGED qCfg

\* The reads made for the dex reported a missing pool or pair, or a zero
\* output, and nothing else went wrong: the configuration is complete and no
\* call failed.
MissingOrZero(d, ain) ==
  IF d.ty = "v2"
  THEN /\ d.factory_ok /\ d.router_ok
       /\ \/ d.pair = "zero"
          \/ /\ d.pair = "addr"
             /\ d.reserves # None
             /\ (ain = 0 \/ d.reserves[1][1] = 0 \/ d.reserves[1][2] = 0
                   \/ (ain * (10000 - (IF d.pancake THEN 25 ELSE 30)) * d.reserves[1][2])
                        < d.reserves[1][1] * 10000 + ain * (10000 - (IF d.pancake THEN 25 ELSE 30)))
  ELSE IF d.ty = "v3"
  THEN /\ d.factory_ok /\ d.router_ok /\ d.quoter = "addr"
       /\ d.tiers # <<>>
       /\ \A i \in 1..Len(d.tiers) : d.tiers[i] \in {"no_pool", "zero_out"}
  ELSE IF d.ty = "solidly"
  THEN /\ d.factory_ok /\ d.router_ok
       /\ \/ d.volatile = "zero" /\ ~d.stable_pools
          \/ d.volatile = "zero" /\ d.stable_pools /\ d.stable = "zero"
          \/ d.volatile = "addr" /\ d.out = "zero_out"
          \/ d.volatile = "zero" /\ d.stable_pools /\ d.stable = "addr" /\ d.out = "zero_out"
  ELSE FALSE

\* everything quote_on_dex can return for this input amount, and whether
\* the chain reported a missing pool or a zero output, over the dex
\* configurations and the answers of the chain
QuoteOnDexResults(ain) ==
  {[res |-> QuoteV2(d, ain), absent |-> MissingOrZero(d, ain)] : d \in DexV2}
    \cup {[res |-> QuoteOnDex(d, 0, v), absent |-> MissingOrZero(d, 0)] :
            d \in DexV3 \cup DexSolidly \cup DexOther, v \in LegOuts}

\* the log entry of a quote_on_dex call
LegEvent(q) ==
  IF q.res.tag = "Some" THEN "leg_some"
  ELSE IF q.res.tag = "None" THEN (IF q.absent THEN "leg_absent_none" ELSE "leg_none")
  ELSE (IF q.absent THEN "leg_absent_err" ELSE "leg_err")

\* router.rs lines 235-238, 244-247, 345-348: `?` on an error and
\* `None => return Ok(None)`
LegEndsRoute(r) == r.tag # "Some"

\* router.rs lines 235-251: quote_on_dex for the first and the second leg;
\* lines 322-349: the first exchange of the trial order that quotes the leg
QuoteLeg ==
  /\ qpc = "leg1"
  /\ \E q \in QuoteOnDexResults(amount) :
       /\ events' = Append(events, LegEvent(q))
       /\ IF LegEndsRoute(q.res)
          THEN /\ qres' = q.res.tag
               /\ qpc' = "quoted"
               /\ UNCHANGED <<amount, legs>>
          ELSE /\ amount' = q.res.out
               /\ legs' = legs + 1
               /\ qpc' = IF legs + 1 < (IF route_kind = "pair" THEN 2 ELSE 3) THEN "leg1" ELSE "gas"
               /\ UNCHANGED qres
  /\ UNCHANGED <<qCfg, route_kind, amount_in, calldata, sent>>

\* router.rs lines 253-305 (351-403): gas price, then the acceptance test
QuoteEval ==
  /\ qpc = "gas"
  /\ \E gas \in {"Ok", "Err"} :
       IF gas = "Err"
       THEN qres' = "Err" /\ qpc' = "quoted"
       ELSE IF NetworkSlippageBps > BpsDenom
       THEN qres' = "Panic" /\ qpc' = "crashed"
       ELSE IF RouteRejected(amount, amount_in, NetworkSlippageBps)
       THEN qres' = "None" /\ qpc' = "quoted"
       ELSE qres' = "Some" /\ qpc' = "quoted"
  /\ UNCHANGED <<qCfg, route_kind, amount_in, amount, legs, calldata, sent, events>>

\* route.rs lines 332-360: no candidate, or the min-profit test and
\* log_candidate
Candidate ==
  /\ qpc = "quoted"
  /\ IF qres # "Some" \/ route_kind = "triangle"
     THEN qpc' = "end" /\ UNCHANGED events
     ELSE LET profit == IF amount > amount_in THEN amount - amount_in ELSE 0
              min_profit == (amount_in * NetworkMinProfitBps) \div BpsDenom
          IN  IF profit < min_profit
              THEN qpc' = "end" /\ UNCHANGED events
              ELSE /\ events' = Append(events, "log_candidate")
                   /\ qpc' = IF 1 \in executors THEN "simulate" ELSE "end"
  /\ UNCHANGED <<qCfg, route_kind, amount_in, amount, legs, qres, calldata, sent>>

\* route.rs lines 361-373: encode_route_calldata(legs, amount_in, amount_out)
\* and exec.simulate, whose result is dropped, then the run_mode() test
Simulate ==
  /\ qpc = "simulate"
  /\ calldata' = Some([amount_in |-> amount_in, min_out |-> amount, legs |-> legs])
  /\ \E sim \in {"Ok", "Err"} :
       /\ events' = IF sim = "Ok" THEN Append(events, "simulate")
                    ELSE events \o <<"simulate", "sim_reverted">>
       /\ qpc' = IF ProceedAfterSimulate(sim) /\ SendsTx(run_mode)
                 THEN "execute" ELSE "end"
  /\ UNCHANGED <<qCfg, route_kind, amount_in, amount, legs, qres, sent>>

\* route.rs lines 374-385: exec.execute(route_calldata.clone(), 0)
Execute ==
  /\ qpc = "execute"
  /\ sent' = calldata
  /\ \E ex \in {"Ok", "Err"} :
       events' = Append(events, IF ex = "Ok" THEN "execute_ok" ELSE "execute_err")
  /\ qpc' = "end"
  /\ UNCHANGED <<qCfg, route_kind, amount_in, amount, legs, qres, calldata>>

\* the for loop of scan_network moves on to the next route
QuoteNext ==
  /\ qpc = "end"
  /\ qpc' = "idle"
  /\ UNCHANGED <<qCfg, route_kind, amount_in, amount, legs, qres, calldata, sent, events>>

NextQuote ==
  \/ QuoteStart /\ UNCHANGED <<engineVars, failVars, fnVars>>
  \/ QuoteLeg /\ UNCHANGED <<engineVars, failVars, fnVars>>
  \/ QuoteEval /\ UNCHANGED <<engineVars, failVars, fnVars>>
  \/ Candidate /\ UNCHANGED <<engineVars, failVars, fnVars>>
  \/ Simulate /\ UNCHANGED <<engineVars, failVars, fnVars>>
  \/ Execute /\ UNCHANGED <<engineVars, failVars, fnVars>>
  \/ QuoteNext /\ UNCHANGED <<engineVars, failVars, fnVars>>

SpecQuote == InitQuote /\ [][NextQuote]_vars

InEvents(e) == \E i \in 1..Len(events) : events[i] = e

\* C1: a route that quote_cross_dex_pair
\* (or quote_triangle) returned as accepted, and so every route that is
\* logged as a candidate, simulated or executed, has
\* amount_out > amount_in and min_out_bps(amount_out, slippage_bps) >
\* amount_in.
C1_AcceptedRouteProfitable ==
  (qres = "Some" \/ InEvents("log_candidate") \/ InEvents("simulate")
     \/ InEvents("execute_ok") \/ InEvents("execute_err"))
    => /\ amount > amount_in
       /\ (amount * (10000 - NetworkSlippageBps)) \div 10000 > amount_in

\* a route with non-zero slippage was accepted and executed
C1_Witness ==
  /\ qres = "Some"
  /\ InEvents("execute_ok")
  /\ NetworkSlippageBps = 5000
  /\ amount_in = 100 /\ amount = 202

(* --------------------- src/network.rs: ChainClient ---------------------- *)

\* The errors an operation can return, by the concrete type and variant
\* that is_retryable inspects.
Errors ==
  {[ty |-> "ProviderError", variant |-> v] : v \in {"JsonRpcClientError", "other"}}
    \cup {[ty |-> "reqwest::Error", variant |-> v] : v \in {"timeout", "connect", "other"}}
    \cup {[ty |-> "other", variant |-> "other"]}

\* is_retryable that retries whatever the error is
IsRetryableAlways(e) == e \in Errors

\* network.rs is_retryable
IsRetryable(e) ==
  IF e.ty = "ProviderError" /\ e.variant = "JsonRpcClientError" THEN TRUE
  ELSE IF e.ty = "reqwest::Error" THEN e.variant \in {"timeout", "connect"}
  ELSE FALSE

\* switch_provider that rebuilds the current endpoint instead of advancing
NextIndexStuck(idx, n) == idx % n

\* switch_provider, line 41
NextIndex(idx, n) == (idx + 1) % n

\* The claim-side reading of an attempt: it succeeded, it failed with a
\* JSON-RPC transport, timeout or connection error, or it failed otherwise.
ClassOf(o) ==
  IF o.tag = "Ok" THEN "ok"
  ELSE IF \/ (o.err[1].ty = "ProviderError" /\ o.err[1].variant = "JsonRpcClientError")
          \/ (o.err[1].ty = "reqwest::Error" /\ o.err[1].variant \in {"timeout", "connect"})
       THEN "transient"
       ELSE "fatal"

\* the engine and the route while only the client is modelled
EngineOff ==
  /\ max_losses_in_row = 1
  /\ cooldown_sec = 0
  /\ run_mode = None
  /\ executors = {}
  /\ consec_losses = 0
  /\ last_loss_ts = None
  /\ now = 0
  /\ pc = "routes"
  /\ chainIdx = 1
  /\ routeIdx = 1
  /\ any_success = FALSE
  /\ scan = [NoScan EXCEPT !.chain = 1, !.result = "running"]

EngineIdle == EngineOff /\ QuoteIdle

\* a client with 1..MaxEndpoints endpoints, used by the tasks cs
InitClients(cs) ==
  \E n \in 1..MaxEndpoints :
    \E ok \in [0..(n - 1) -> BOOLEAN] :
      /\ ok[0]
      /\ InitClient(n, ok, cs)

\* one task calls with_failover, one call after the other
InitFailover == EngineIdle /\ InitClients({"a"})

\* two tasks share the client and call with_failover once each
InitConcurrent == EngineIdle /\ InitClients({"a", "b"})

clientCfg == <<endpoints, url_ok, callers>>

\* with_failover is called: line 72
Call(c) ==
  /\ c \in callers
  /\ fpc[c] = "idle"
  /\ calls[c] < MaxCalls
  /\ calls' = [calls EXCEPT ![c] = @ + 1]
  /\ fpc' = [fpc EXCEPT ![c] = "top"]
  /\ UNCHANGED <<clientCfg, current_index, provider, iter, my_provider, next_idx,
                 last_err, result, tried, prev>>

\* with_failover, lines 73-74 and 86: the loop head takes the current
\* provider under the lock, or the loop is over and the last error is
\* returned.
LoopTop(c) ==
  /\ fpc[c] = "top"
  /\ IF iter[c] < endpoints
     THEN /\ my_provider' = [my_provider EXCEPT ![c] = provider]
          /\ fpc' = [fpc EXCEPT ![c] = "op"]
          /\ UNCHANGED result
     ELSE /\ result' = [result EXCEPT ![c] =
                          [tag |-> "Err",
                           err |-> IF last_err[c] = None
                                   THEN Some([ty |-> "other", variant |-> "all RPC endpoints failed"])
                                   ELSE last_err[c]]]
          /\ fpc' = [fpc EXCEPT ![c] = "done"]
          /\ UNCHANGED my_provider
  /\ UNCHANGED <<clientCfg, current_index, provider, iter, next_idx, last_err,
                 tried, prev, calls>>

\* a with_failover that does not switch after the attempt of its last round
OpReturnNoLastSwitch(c) ==
  /\ fpc[c] = "op"
  /\ \E o \in {[tag |-> "Ok", err |-> None]}
               \cup {[tag |-> "Err", err |-> Some(e)] : e \in Errors} :
       /\ tried' = [tried EXCEPT ![c] = Append(@, [ep |-> my_provider[c], cls |-> ClassOf(o)])]
       /\ IF o.tag = "Ok"
          THEN /\ result' = [result EXCEPT ![c] = o]
               /\ fpc' = [fpc EXCEPT ![c] = "done"]
               /\ UNCHANGED <<last_err, iter>>
          ELSE IF ~IsRetryable(o.err[1])
          THEN /\ result' = [result EXCEPT ![c] = o]
               /\ fpc' = [fpc EXCEPT ![c] = "done"]
               /\ UNCHANGED <<last_err, iter>>
          ELSE IF iter[c] = endpoints - 1
          THEN /\ last_err' = [last_err EXCEPT ![c] = o.err]
               /\ iter' = [iter EXCEPT ![c] = @ + 1]
               /\ fpc' = [fpc EXCEPT ![c] = "top"]
               /\ UNCHANGED result
          ELSE /\ last_err' = [last_err EXCEPT ![c] = o.err]
               /\ fpc' = [fpc EXCEPT ![c] = "sw_read"]
               /\ UNCHANGED <<result, iter>>
  /\ UNCHANGED <<clientCfg, current_index, provider, my_provider, next_idx,
                 prev, calls>>

\* with_failover, lines 75-81: the operation completes on the provider taken
\* at the loop head and its result is classified.
OpReturn(c) ==
  /\ fpc[c] = "op"
  /\ \E o \in {[tag |-> "Ok", err |-> None]}
               \cup {[tag |-> "Err", err |-> Some(e)] : e \in Errors} :
       /\ tried' = [tried EXCEPT ![c] = Append(@, [ep |-> my_provider[c], cls |-> ClassOf(o)])]
       /\ IF o.tag = "Ok"
          THEN /\ result' = [result EXCEPT ![c] = o]
               /\ fpc' = [fpc EXCEPT ![c] = "done"]
               /\ UNCHANGED last_err
          ELSE IF ~IsRetryable(o.err[1])
          THEN /\ result' = [result EXCEPT ![c] = o]
               /\ fpc' = [fpc EXCEPT ![c] = "done"]
               /\ UNCHANGED last_err
          ELSE /\ last_err' = [last_err EXCEPT ![c] = o.err]
               /\ fpc' = [fpc EXCEPT ![c] = "sw_read"]
               /\ UNCHANGED result
  /\ UNCHANGED <<clientCfg, current_index, provider, iter, my_provider, next_idx,
                 prev, calls>>

\* switch_provider, lines 39-45: the next index is read under the lock, the
\* lock is released and the provider of that URL is built; a URL that does
\* not build ends with_failover through the `?` of line 82.
SwitchRead(c) ==
  /\ fpc[c] = "sw_read"
  /\ LET next == NextIndex(current_index, endpoints)
     IN  IF url_ok[next]
         THEN /\ next_idx' = [next_idx EXCEPT ![c] = next]
              /\ fpc' = [fpc EXCEPT ![c] = "sw_write"]
              /\ UNCHANGED result
         ELSE /\ result' = [result EXCEPT ![c] =
                              [tag |-> "Err", err |-> Some([ty |-> "other", variant |-> "build_provider"])]]
              /\ fpc' = [fpc EXCEPT ![c] = "done"]
              /\ UNCHANGED next_idx
  /\ UNCHANGED <<clientCfg, current_index, provider, iter, my_provider, last_err,
                 tried, prev, calls>>

\* a switch that advances the index again under the second lock and stores
\* the provider built for the index read under the first
SwitchWriteRecomputesIndex(c) ==
  /\ fpc[c] = "sw_write"
  /\ current_index' = NextIndex(current_index, endpoints)
  /\ provider' = next_idx[c]
  /\ iter' = [iter EXCEPT ![c] = @ + 1]
  /\ fpc' = [fpc EXCEPT ![c] = "top"]
  /\ UNCHANGED <<clientCfg, my_provider, next_idx, last_err, result, tried, prev,
                 calls>>

\* switch_provider, lines 46-52: the lock is taken again and the index and
\* the provider are stored; the loop of with_failover goes round.
SwitchWrite(c) ==
  /\ fpc[c] = "sw_write"
  /\ current_index' = next_idx[c]
  /\ provider' = next_idx[c]
  /\ iter' = [iter EXCEPT ![c] = @ + 1]
  /\ fpc' = [fpc EXCEPT ![c] = "top"]
  /\ UNCHANGED <<clientCfg, my_provider, next_idx, last_err, result, tried, prev,
                 calls>>

\* a client that goes back to its first endpoint when a call returns
ReturnFresh(c) ==
  /\ fpc[c] = "done"
  /\ fpc' = [fpc EXCEPT ![c] = "idle"]
  /\ iter' = [iter EXCEPT ![c] = 0]
  /\ my_provider' = [my_provider EXCEPT ![c] = 0]
  /\ next_idx' = [next_idx EXCEPT ![c] = 0]
  /\ last_err' = [last_err EXCEPT ![c] = None]
  /\ result' = [result EXCEPT ![c] = NoResult]
  /\ tried' = [tried EXCEPT ![c] = <<>>]
  /\ prev' = Some([tag |-> result[c].tag, from |-> tried[c][1].ep,
                    to |-> tried[c][Len(tried[c])].ep])
  /\ current_index' = 0
  /\ provider' = 0
  /\ UNCHANGED <<clientCfg, calls>>

\* the caller takes the result and is free to call again; the locals of the
\* finished call are gone, the client state stays
Return(c) ==
  /\ fpc[c] = "done"
  /\ fpc' = [fpc EXCEPT ![c] = "idle"]
  /\ iter' = [iter EXCEPT ![c] = 0]
  /\ my_provider' = [my_provider EXCEPT ![c] = 0]
  /\ next_idx' = [next_idx EXCEPT ![c] = 0]
  /\ last_err' = [last_err EXCEPT ![c] = None]
  /\ result' = [result EXCEPT ![c] = NoResult]
  /\ tried' = [tried EXCEPT ![c] = <<>>]
  /\ prev' = Some([tag |-> result[c].tag, from |-> tried[c][1].ep,
                    to |-> tried[c][Len(tried[c])].ep])
  /\ UNCHANGED <<clientCfg, current_index, provider, calls>>

NextFailover ==
  \/ \E c \in Callers : Call(c) /\ UNCHANGED <<engineVars, quoteVars>>
  \/ \E c \in Callers : LoopTop(c) /\ UNCHANGED <<engineVars, quoteVars>>
  \/ \E c \in Callers : OpReturn(c) /\ UNCHANGED <<engineVars, quoteVars>>
  \/ \E c \in Callers : SwitchRead(c) /\ UNCHANGED <<engineVars, quoteVars>>
  \/ \E c \in Callers : SwitchWrite(c) /\ UNCHANGED <<engineVars, quoteVars>>
  \/ \E c \in Callers : Return(c) /\ UNCHANGED <<engineVars, quoteVars>>

SpecFailover == InitFailover /\ [][NextFailover]_vars

NextConcurrent ==
  \/ \E c \in Callers : Call(c) /\ calls[c] = 0 /\ UNCHANGED <<engineVars, quoteVars>>
  \/ \E c \in Callers : LoopTop(c) /\ UNCHANGED <<engineVars, quoteVars>>
  \/ \E c \in Callers : OpReturn(c) /\ UNCHANGED <<engineVars, quoteVars>>
  \/ \E c \in Callers : SwitchRead(c) /\ UNCHANGED <<engineVars, quoteVars>>
  \/ \E c \in Callers : SwitchWrite(c) /\ UNCHANGED <<engineVars, quoteVars>>

SpecConcurrent == InitConcurrent /\ [][NextConcurrent]_vars

(* ------------------- single calls of router.rs functions ---------------- *)

\* one call of quote_on_dex
InitAdapter ==
  /\ EngineOff
  /\ RouteIdle
  /\ ClientIdle
  /\ \E d \in DexInputs, a \in {U256FromDecimals(dec) : dec \in Decimals}, v \in LegOuts :
       fn_in = Some([dex |-> d, amount_in |-> a, quoted |-> v])
  /\ fn_out = None

CallQuoteOnDex ==
  /\ fn_in # None
  /\ fn_out = None
  /\ fn_out' = Some(QuoteOnDex(fn_in[1].dex, fn_in[1].amount_in, fn_in[1].quoted))
  /\ UNCHANGED fn_in

NextAdapter ==
  CallQuoteOnDex /\ UNCHANGED <<engineVars, routeVars, failVars>>

SpecAdapter == InitAdapter /\ [][NextAdapter]_vars

(* --------------------- src/router.rs quote_triangle --------------------- *)

\* names of configured dexes, and a name no dex has
DexNames == {"uni", "sushi"}

\* sequences over S of length lo..hi
SeqsOf(S, lo, hi) == UNION {[1..n -> S] : n \in lo..hi}

\* net.dexes.iter().find(|d| d.name == *name): the position, 0 for none
RECURSIVE FindDex(_, _, _)
FindDex(dexes, name, i) ==
  IF i > Len(dexes) THEN 0
  ELSE IF dexes[i] = name THEN i
  ELSE FindDex(dexes, name, i + 1)

\* router.rs lines 324-328: the first loop of the trial order
RECURSIVE PreferredFirst(_, _)
PreferredFirst(preferred, dexes) ==
  IF preferred = <<>> THEN <<>>
  ELSE LET i == FindDex(dexes, Head(preferred), 1)
       IN  (IF i = 0 THEN <<>> ELSE <<i>>) \o PreferredFirst(Tail(preferred), dexes)

\* router.rs lines 329-333: the second loop of the trial order
RECURSIVE RestDeclared(_, _, _)
RestDeclared(preferred, dexes, i) ==
  IF i > Len(dexes) THEN <<>>
  ELSE (IF \E k \in 1..Len(preferred) : preferred[k] = dexes[i] THEN <<>> ELSE <<i>>)
         \o RestDeclared(preferred, dexes, i + 1)

\* router.rs lines 322-333: dex_order, as positions in net.dexes
DexOrder(preferred, dexes) ==
  PreferredFirst(preferred, dexes) \o RestDeclared(preferred, dexes, 1)

\* the dex at position i ("uni" has dex_type v2, the others solidly) and
\* what the chain answers for the leg: the pair exists and quotes, or the
\* factory knows no pair
DexForLeg(in, leg, i) ==
  IF in.dexes[i] = "uni"
  THEN [ty |-> "v2", factory_ok |-> TRUE, router_ok |-> TRUE, pancake |-> FALSE,
        pair |-> IF in.found[leg][i] THEN "addr" ELSE "zero",
        reserves |-> Some(<<100, 300>>)]
  ELSE [ty |-> "solidly", factory_ok |-> TRUE, router_ok |-> TRUE, stable_pools |-> FALSE,
        volatile |-> IF in.found[leg][i] THEN "addr" ELSE "zero",
        stable |-> "zero", out |-> "quoted"]

\* router.rs lines 334-340: the exchanges are tried in order until one
\* quotes; `?` ends the call on an error
RECURSIVE TryDexes(_, _, _, _, _)
TryDexes(in, leg, order, amt, done) ==
  IF order = <<>> THEN [tag |-> "None", out |-> 0, trials |-> done]
  ELSE LET r == QuoteOnDex(DexForLeg(in, leg, Head(order)), amt, in.quoted)
           now_tried == Append(done, Head(order))
       IN  IF r.tag = "Err" THEN [tag |-> "Err", out |-> 0, trials |-> now_tried]
           ELSE IF r.tag = "Some" THEN [tag |-> "Some", out |-> r.out, trials |-> now_tried]
           ELSE TryDexes(in, leg, Tail(order), amt, now_tried)

\* a leg of a route: the quote_on_dex call that produced it and its output
LegCall(tin, tout, ain, out) ==
  [token_in |-> tin, token_out |-> tout, amount_in |-> ain, amount_out |-> out]

\* router.rs lines 320-403: pairs = [(a, b), (b, c), (c, a)], the three legs,
\* the gas price and the acceptance test
RECURSIVE TriangleLegs(_, _, _, _, _)
TriangleLegs(in, leg, amt, trials, legs_so_far) ==
  IF leg > 3
  THEN IF ~in.gas_ok THEN [tag |-> "Err", out |-> 0, trials |-> trials, legs |-> <<>>]
       ELSE IF RouteRejected(amt, in.amount_in, in.slip_bps)
       THEN [tag |-> "None", out |-> 0, trials |-> trials, legs |-> <<>>]
       ELSE [tag |-> "Some", out |-> amt, trials |-> trials, legs |-> legs_so_far]
  ELSE LET t == TryDexes(in, leg, DexOrder(in.preferred, in.dexes), amt, <<>>)
           tri == in.tri
           pairs == <<(<<tri[1], tri[2]>>), (<<tri[2], tri[3]>>), (<<tri[3], tri[1]>>)>>
           pr == pairs[leg]
       IN  IF t.tag = "Some"
           THEN TriangleLegs(in, leg + 1, t.out, Append(trials, t.trials),
                             Append(legs_so_far, LegCall(pr[1], pr[2], amt, t.out)))
           ELSE [tag |-> t.tag, out |-> 0, trials |-> Append(trials, t.trials),
                 legs |-> <<>>]

\* router.rs quote_triangle
QuoteTriangle(in) == TriangleLegs(in, 1, in.amount_in, <<>>, <<>>)

\* one call of quote_triangle
InitTriangle ==
  /\ EngineOff
  /\ RouteIdle
  /\ ClientIdle
  /\ \E dexes \in SeqsOf(DexNames, 1, MaxDexes), preferred \in SeqsOf(DexNames \cup {"nodex"}, 0, MaxPreferred) :
       \E found \in [1..3 -> [1..Len(dexes) -> BOOLEAN]], gas_ok \in BOOLEAN,
          quoted \in {v \in LegOuts : v \in 100..101} :
         fn_in = Some([dexes |-> dexes, preferred |-> preferred, found |-> found,
                       gas_ok |-> gas_ok, quoted |-> quoted,
                       tri |-> <<"USDC", "WETH", "DAI">>,
                       amount_in |-> U256FromDecimals(2), slip_bps |-> 0])
  /\ fn_out = None

CallQuoteTriangle ==
  /\ fn_in # None
  /\ "tri" \in DOMAIN fn_in[1]
  /\ fn_out = None
  /\ fn_out' = Some(QuoteTriangle(fn_in[1]))
  /\ UNCHANGED fn_in

NextTriangle ==
  CallQuoteTriangle /\ UNCHANGED <<engineVars, routeVars, failVars>>

SpecTriangle == InitTriangle /\ [][NextTriangle]_vars

(* ------------------- router.rs quote_cross_dex_pair --------------------- *)

\* a route whose second leg repeats the direction of the first
PairLegsSameWay(pair) == <<(<<pair[1], pair[2]>>), (<<pair[1], pair[2]>>)>>

\* router.rs lines 235, 244: the legs (sym_a, sym_b) and (sym_b, sym_a)
PairLegs(pair) == <<(<<pair[1], pair[2]>>), (<<pair[2], pair[1]>>)>>

\* router.rs quote_cross_dex_pair
QuoteCrossDexPair(in) ==
  LET none == [tag |-> "None", out |-> 0, legs |-> <<>>]
      err  == [tag |-> "Err", out |-> 0, legs |-> <<>>]
      sym  == PairLegs(in.pair)
      r1   == QuoteOnDex(in.dex_a, in.amount_in, in.quoted[1])
  IN  IF r1.tag = "Err" THEN err
      ELSE IF r1.tag = "None" THEN none
      ELSE LET r2 == QuoteOnDex(in.dex_b, r1.out, in.quoted[2])
           IN  IF r2.tag = "Err" THEN err
               ELSE IF r2.tag = "None" THEN none
               ELSE IF ~in.gas_ok THEN err
               ELSE IF in.slip_bps > BpsDenom
               THEN [tag |-> "Panic", out |-> 0, legs |-> <<>>]
               ELSE IF RouteRejected(r2.out, in.amount_in, in.slip_bps) THEN none
               ELSE [tag |-> "Some", out |-> r2.out,
                     legs |-> <<LegCall(sym[1][1], sym[1][2], in.amount_in, r1.out),
                                LegCall(sym[2][1], sym[2][2], r1.out, r2.out)>>]

\* the exchanges of a route: complete configurations of each dex_type and
\* the answers of the chain
PairDexes ==
  {d \in DexV2 : d.factory_ok /\ d.router_ok /\ ~d.pancake}
    \cup {d \in DexV3 : d.factory_ok /\ d.router_ok /\ Len(d.tiers) = 1
                         /\ d.tiers[1] \in {"no_pool", "quoted"}}
    \cup {d \in DexSolidly : d.factory_ok /\ d.router_ok /\ ~d.stable_pools
                              /\ d.stable = "zero"}

\* one call of quote_cross_dex_pair or of quote_triangle
InitPair ==
  /\ EngineOff
  /\ RouteIdle
  /\ ClientIdle
  /\ \E da \in PairDexes, db \in PairDexes, dec \in Decimals,
        v1 \in {9, 101, 202}, v2 \in {9, 101, 202},
        gas_ok \in BOOLEAN, slip \in {0, 5000, 10001} :
       fn_in = Some([pair |-> <<"USDC", "WETH">>, dex_a |-> da, dex_b |-> db,
                     amount_in |-> U256FromDecimals(dec), quoted |-> <<v1, v2>>,
                     gas_ok |-> gas_ok, slip_bps |-> slip])
  /\ fn_out = None

InitRoutes == InitPair \/ InitTriangle

CallQuoteCrossDexPair ==
  /\ fn_in # None
  /\ "pair" \in DOMAIN fn_in[1]
  /\ fn_out = None
  /\ fn_out' = Some(QuoteCrossDexPair(fn_in[1]))
  /\ UNCHANGED fn_in

NextRoutes ==
  \/ CallQuoteCrossDexPair /\ UNCHANGED <<engineVars, routeVars, failVars>>
  \/ CallQuoteTriangle /\ UNCHANGED <<engineVars, routeVars, failVars>>

SpecRoutes == InitRoutes /\ [][NextRoutes]_vars

(* ------------------ router.rs quote_on_dex: the v3 arm ------------------ *)

\* the fields of a DexConfig the "v3" arm reads: the quoter hint and which
\* router addresses are present
V3Descriptors ==
  [quoter_v2_hint : {None, Some(FALSE), Some(TRUE)},
   swap_router02 : BOOLEAN, universal_router : BOOLEAN, router : BOOLEAN,
   factory : BOOLEAN]

\* the fees a dex can list
V3Fees == {500, 3000}

\* the dex as the "v3" arm sees it.  router.rs lines 112-118: the router is
\* swap_router02, else universal_router, else router; lines 120-130: the
\* quoter address; line 135: fee_tiers_bps, [3000] when not configured; the
\* answers of the chain come in the order of the listed tiers
V3Dex(c, fee_tiers_bps, answers) ==
  LET fee_tiers == UnwrapOr(fee_tiers_bps, <<3000>>)
  IN  [ty |-> "v3", factory_ok |-> c.factory,
       router_ok |-> c.swap_router02 \/ c.universal_router \/ c.router,
       quoter |-> IF UnwrapOr(c.quoter_v2_hint, FALSE)
                  THEN (IF c.swap_router02 \/ c.universal_router THEN "addr" ELSE "unknown")
                  ELSE "none",
       tiers |-> [i \in 1..Len(fee_tiers) |-> answers[fee_tiers[i]]]]

\* one call of quote_on_dex for a dex of type v3: the fee tiers the dex
\* lists, and what the chain answers for each fee
InitV3 ==
  /\ EngineOff
  /\ RouteIdle
  /\ ClientIdle
  /\ \E c \in V3Descriptors,
        ft \in {None} \cup {Some(fs) : fs \in UNION {[1..n -> V3Fees] : n \in 0..MaxTiers}},
        ans \in [V3Fees -> TierReads], v \in {9, 100} :
       fn_in = Some([cfg |-> c, fee_tiers_bps |-> ft, answers |-> ans, quoted |-> v])
  /\ fn_out = None

CallQuoteV3 ==
  /\ fn_in # None
  /\ fn_out = None
  /\ fn_out' = Some(QuoteV3Run(V3Dex(fn_in[1].cfg, fn_in[1].fee_tiers_bps, fn_in[1].answers),
                               fn_in[1].quoted))
  /\ UNCHANGED fn_in

NextV3 ==
  CallQuoteV3 /\ UNCHANGED <<engineVars, routeVars, failVars>>

SpecV3 == InitV3 /\ [][NextV3]_vars

(* -------------------- approvals.rs: ensure_approvals -------------------- *)

\* a pair below the minimum for which a permit2 approve that was sent counts
\* as done whatever its result
PairTxsNoFallback(permit2, dry, p2_send, approve_send) ==
  LET p2addr == IF permit2 = "0xp2" THEN Some(permit2) ELSE None
      used_permit2 == p2addr # None
  IN  (IF p2addr # None /\ ~dry
       THEN <<[kind |-> "permit2", amount |-> "uint160_max", sent |-> p2_send]>>
       ELSE <<>>)
        \o (IF ~used_permit2 /\ ~dry
            THEN <<[kind |-> "erc20", amount |-> "u256_max", sent |-> approve_send]>>
            ELSE <<>>)

\* approvals.rs lines 35-39 and 50-95: the transactions sent for a pair whose
\* allowance is below the minimum.  net.permit2 is "" (none), a string that
\* does not parse as an address, or the address "0xp2"; p2_send and
\* approve_send are the results of the two send() calls.
PairTxs(permit2, dry, p2_send, approve_send) ==
  LET p2addr == IF permit2 = "0xp2" THEN Some(permit2) ELSE None
      used_permit2 == p2addr # None /\ (dry \/ p2_send = "Ok")
  IN  (IF p2addr # None /\ ~dry
       THEN <<[kind |-> "permit2", amount |-> "uint160_max", sent |-> p2_send]>>
       ELSE <<>>)
        \o (IF ~used_permit2 /\ ~dry
            THEN <<[kind |-> "erc20", amount |-> "u256_max", sent |-> approve_send]>>
            ELSE <<>>)

\* one call of ensure_approvals; fn_out holds the position of the loops (the
\* number of the next pair, tokens outermost), what was done for the pairs
\* visited, and the result once the call has returned
InitApprovals ==
  /\ EngineOff
  /\ RouteIdle
  /\ ClientIdle
  /\ \E tokens \in {<<"t1">>, <<"t1", "t2">>}, spenders \in {<<"s1">>, <<"s1", "s2">>},
        permit2 \in {"", "not-an-address", "0xp2"}, dry \in BOOLEAN,
        min_allowance \in {0, 2} :
       fn_in = Some([tokens |-> tokens, spenders |-> spenders, permit2 |-> permit2,
                     dry |-> dry, min_allowance |-> min_allowance])
  /\ fn_out = Some([next |-> 1, events |-> <<>>, tag |-> "running"])

\* approvals.rs lines 46-107: one iteration of the inner loop; the allowance
\* read fails or answers, and `?` on the direct approve ends the call
ApprovePair ==
  /\ fn_in # None
  /\ fn_out[1].tag = "running"
  /\ fn_out[1].next <= Len(fn_in[1].tokens) * Len(fn_in[1].spenders)
  /\ \E allowance \in {None, Some(0), Some(1), Some(2), Some(3)},
        p2_send \in {"Ok", "Err"}, approve_send \in {"Ok", "Err"} :
       LET in == fn_in[1]
           k == fn_out[1].next
           n == Len(in.spenders)
           txs == IF allowance # None /\ allowance[1] < in.min_allowance
                  THEN PairTxs(in.permit2, in.dry, p2_send, approve_send)
                  ELSE <<>>
           failed == txs # <<>> /\ txs[Len(txs)].kind = "erc20"
                       /\ txs[Len(txs)].sent = "Err"
       IN  fn_out' = Some([next |-> k + 1,
                           events |-> Append(fn_out[1].events,
                                             [token |-> in.tokens[((k - 1) \div n) + 1],
                                              spender |-> in.spenders[((k - 1) % n) + 1],
                                              allowance |-> allowance, txs |-> txs]),
                           tag |-> IF failed THEN "Err" ELSE "running"])
  /\ UNCHANGED fn_in

\* approvals.rs line 109: Ok(()) after the last pair
ApprovalsReturn ==
  /\ fn_in # None
  /\ fn_out[1].tag = "running"
  /\ fn_out[1].next > Len(fn_in[1].tokens) * Len(fn_in[1].spenders)
  /\ fn_out' = Some([fn_out[1] EXCEPT !.tag = "Ok"])
  /\ UNCHANGED fn_in

NextApprovals ==
  (ApprovePair \/ ApprovalsReturn) /\ UNCHANGED <<engineVars, routeVars, failVars>>

SpecApprovals == InitApprovals /\ [][NextApprovals]_vars

(* --------------------- exec.rs: execute_with_opts ----------------------- *)

\* TxOpts: the fields that set the gas price, and gas_jitter's jitter_bps
GasOpts ==
  [max_fee_per_gas : {None, Some(20), Some(40)},
   max_priority_fee_per_gas : {None, Some(0), Some(5), Some(15)},
   legacy_gas_price : {None, Some(7)},
   gas_jitter : {None, Some(0), Some(1000), Some(10000)}]

\* a gas price for which the fixed legacy price comes first
EffectiveGasPriceLegacyFirst(opts, basefee) ==
  IF opts.legacy_gas_price # None THEN opts.legacy_gas_price
  ELSE IF opts.max_fee_per_gas # None /\ opts.max_priority_fee_per_gas # None
  THEN LET sum == basefee + opts.max_priority_fee_per_gas[1]
       IN  Some(IF sum > opts.max_fee_per_gas[1] THEN opts.max_fee_per_gas[1] ELSE sum)
  ELSE None

\* exec.rs lines 133-148: effective_gas_price before the jitter; the fees of
\* the model are far below 2^256 - 1, where saturating_add is the plain sum
EffectiveGasPrice(opts, basefee) ==
  IF opts.max_fee_per_gas # None /\ opts.max_priority_fee_per_gas # None
  THEN LET sum == basefee + opts.max_priority_fee_per_gas[1]
       IN  Some(IF sum > opts.max_fee_per_gas[1] THEN opts.max_fee_per_gas[1] ELSE sum)
  ELSE IF opts.legacy_gas_price # None THEN opts.legacy_gas_price
  ELSE None

\* mev.rs jitter_value_bps: the values it can return, one for each draw of
\* the direction and of j in 0..=bps (here the ends and the middle)
JitterValueBps(value, bps) ==
  IF bps = 0 THEN {value}
  ELSE UNION {LET delta == (value * j) \div 10000
              IN  {value + delta, IF delta > value THEN 0 ELSE value - delta} :
                j \in {0, bps \div 2, bps}}

\* exec.rs lines 150-157: the price given to call.gas_price, None when the
\* provider's default pricing is left in place
GasPricesSet(opts, basefee) ==
  LET eff == EffectiveGasPrice(opts, basefee)
  IN  IF eff = None THEN {None}
      ELSE IF opts.gas_jitter = None THEN {eff}
      ELSE {Some(gp) : gp \in JitterValueBps(eff[1], opts.gas_jitter[1])}

\* one call of execute_with_opts; basefee is base_fee_per_gas of the latest
\* block, 0 when the block has none
InitExecute ==
  /\ EngineOff
  /\ RouteIdle
  /\ ClientIdle
  /\ \E opts \in GasOpts, basefee \in {0, 10, 30}, preflight \in {"Ok", "Err"} :
       fn_in = Some([opts |-> opts, basefee |-> basefee, preflight |-> preflight])
  /\ fn_out = None

\* exec.rs lines 98-171: the preflight reads, the gas price and the send
ExecuteWithOpts ==
  /\ fn_in # None
  /\ fn_out = None
  /\ IF fn_in[1].preflight = "Err"
     THEN fn_out' = Some([tag |-> "Err", sent |-> FALSE, gas_price |-> None])
     ELSE \E gp \in GasPricesSet(fn_in[1].opts, fn_in[1].basefee), send \in {"Ok", "Err"} :
            fn_out' = Some([tag |-> send, sent |-> TRUE, gas_price |-> gp])
  /\ UNCHANGED fn_in

NextExecute ==
  ExecuteWithOpts /\ UNCHANGED <<engineVars, routeVars, failVars>>

SpecExecute == InitExecute /\ [][NextExecute]_vars

(* ----------------------- dex.rs: amount_out_v2 -------------------------- *)

\* amounts and reserves: the small ones, and the sizes of a pool of a few
\* thousand or a million units; fee_bps: no fee, the two fees quote_on_dex
\* uses, and the ends of the range
InitAmountOut ==
  /\ EngineOff
  /\ RouteIdle
  /\ ClientIdle
  /\ \E a, rin, rout \in (0..MaxUnits) \cup {10, 1000, 1000000},
        f \in {0, 25, 30, 5000, 9999} :
       fn_in = Some([amount_in |-> a, reserve_in |-> rin, reserve_out |-> rout,
                     fee_bps |-> f])
  /\ fn_out = None

\* one call of amount_out_v2
CallAmountOutV2 ==
  /\ fn_in # None
  /\ fn_out = None
  /\ fn_out' = Some(AmountOutV2(fn_in[1].amount_in, fn_in[1].reserve_in,
                                fn_in[1].reserve_out, fn_in[1].fee_bps))
  /\ UNCHANGED fn_in

NextAmountOut ==
  CallAmountOutV2 /\ UNCHANGED <<engineVars, routeVars, failVars>>

SpecAmountOut == InitAmountOut /\ [][NextAmountOut]_vars

(* ------------------------- dex.rs: min_out_bps --------------------------- *)

\* two calls of min_out_bps for one quoted amount, with slippage values up
\* to the 10000 that min_out_bps can subtract; fn_out is the sequence of the
\* results so far
InitMinOut ==
  /\ EngineOff
  /\ RouteIdle
  /\ ClientIdle
  /\ \E q \in (0..MaxUnits) \cup {10, 9999, 10000, 100000},
        b1, b2 \in {0, 1, 2, 50, 5000, 9999, 10000} :
       fn_in = Some([quoted_out |-> q, slippage_bps |-> <<b1, b2>>])
  /\ fn_out = <<>>

CallMinOutBps ==
  /\ fn_in # None
  /\ Len(fn_out) < 2
  /\ fn_out' = Append(fn_out, MinOutBps(fn_in[1].quoted_out,
                                        fn_in[1].slippage_bps[Len(fn_out) + 1]))
  /\ UNCHANGED fn_in

NextMinOut ==
  CallMinOutBps /\ UNCHANGED <<engineVars, routeVars, failVars>>

SpecMinOut == InitMinOut /\ [][NextMinOut]_vars

(* ------------- src/route.rs scan_network: pre-quote filters ------------- *)

\* str::to_ascii_lowercase on the strings of the configurations below
Lower(x) ==
  CASE x \in {"USDC", "usdc"} -> "usdc"
    [] x \in {"WETH", "weth"} -> "weth"
    [] x \in {"DAI", "dai"} -> "dai"
    [] x \in {"UNI", "uni"} -> "uni"
    [] x \in {"0xAA", "0xaa"} -> "0xaa"
    [] OTHER -> x

\* str::eq_ignore_ascii_case
EqIgnoreAsciiCase(a, b) == Lower(a) = Lower(b)

\* Network.tokens after Config::load: upper-case keys, lower-case addresses
Tokens == [USDC |-> "0xaa", WETH |-> "0xbb", DAI |-> "0xcc"]

\* names of net.dexes
NetDexes == {"uni", "sushi"}

\* cfg.strategies.first() and cfg.global.risk
FilterCfgs ==
  [strategy : {None} \cup {Some(st) : st \in
                 [only_stables : {None, Some(TRUE), Some(FALSE)},
                  whitelist_dexes : {None, Some({"UNI", "sushi"}), Some({"sushi"})},
                  whitelist_pairs : {None, Some({<<"weth", "USDC">>})}]},
   stables : {{}, {"USDC"}},
   blacklist_tokens : {{}, {"0xAA"}, {"0xcc"}}]

\* entries of routes_cross_dex and of triangles; symbols are upper-case
\* after Config::load but need not be keys of tokens
CrossDexRoutes ==
  [kind : {"pair"},
   syms : {<<a, b>> : a \in {"USDC", "WETH", "XYZ"}, b \in {"WETH", "DAI", "USDC"}},
   dexes : {<<"uni", "sushi">>, <<"uni">>, <<"sushi", "curve">>, <<"sushi", "sushi">>}]
TriangleRoutes ==
  [kind : {"triangle"},
   syms : {<<a, b, c>> : a \in {"USDC", "WETH"}, b \in {"WETH", "DAI"}, c \in {"DAI", "USDC"}},
   dexes : {<<>>}]

\* route.rs lines 255-256, 396-400
IsStable(cfg, sym) == \E st \in cfg.stables : EqIgnoreAsciiCase(st, sym)
NonStable(cfg, a, b) == ~IsStable(cfg, a) /\ ~IsStable(cfg, b)

\* route.rs lines 279-282, 415-420: the pair is listed, in either order
InList(pairs, a, b) ==
  \E pr \in pairs :
    \/ EqIgnoreAsciiCase(pr[1], a) /\ EqIgnoreAsciiCase(pr[2], b)
    \/ EqIgnoreAsciiCase(pr[1], b) /\ EqIgnoreAsciiCase(pr[2], a)

\* route.rs lines 252-297: the strategy filters of a cross-dex route
PairSkippedByStrategy(cfg, r) ==
  /\ cfg.strategy # None
  /\ LET strat == cfg.strategy[1]
     IN  \/ UnwrapOr(strat.only_stables, FALSE) /\ NonStable(cfg, r.syms[1], r.syms[2])
         \/ /\ strat.whitelist_dexes # None
            /\ ~\A i \in 1..Len(r.dexes) :
                  \E w \in strat.whitelist_dexes[1] : EqIgnoreAsciiCase(w, r.dexes[i])
         \/ /\ strat.whitelist_pairs # None
            /\ ~InList(strat.whitelist_pairs[1], r.syms[1], r.syms[2])

\* route.rs lines 393-436: the strategy filters of a triangle
TriangleSkippedByStrategy(cfg, r) ==
  /\ cfg.strategy # None
  /\ LET strat == cfg.strategy[1]
     IN  \/ /\ UnwrapOr(strat.only_stables, FALSE)
            /\ \/ NonStable(cfg, r.syms[1], r.syms[2])
               \/ NonStable(cfg, r.syms[2], r.syms[3])
               \/ NonStable(cfg, r.syms[3], r.syms[1])
         \/ /\ strat.whitelist_pairs # None
            /\ ~(/\ InList(strat.whitelist_pairs[1], r.syms[1], r.syms[2])
                 /\ InList(strat.whitelist_pairs[1], r.syms[2], r.syms[3])
                 /\ InList(strat.whitelist_pairs[1], r.syms[3], r.syms[1]))

\* route.rs lines 502-507: has_black
HasBlack(cfg, sym) ==
  /\ sym \in DOMAIN Tokens
  /\ \E x \in cfg.blacklist_tokens : EqIgnoreAsciiCase(x, Tokens[sym])

\* route.rs skip_pair_by_risk
SkipPairByRisk(cfg, a, b) == HasBlack(cfg, a) \/ HasBlack(cfg, b)

\* a blacklist check of the triangle that looks at its first pair only
TriangleSkippedByRiskFirstPair(cfg, r) ==
  SkipPairByRisk(cfg, r.syms[1], r.syms[2])

\* route.rs lines 438-440
TriangleSkippedByRisk(cfg, r) ==
  \/ SkipPairByRisk(cfg, r.syms[1], r.syms[2])
  \/ SkipPairByRisk(cfg, r.syms[2], r.syms[3])

\* the `continue` statements ahead of METRIC_ROUTES_SCANNED.inc()
RouteSkipped(cfg, r) ==
  IF r.kind = "pair"
  THEN PairSkippedByStrategy(cfg, r) \/ SkipPairByRisk(cfg, r.syms[1], r.syms[2])
  ELSE TriangleSkippedByStrategy(cfg, r) \/ TriangleSkippedByRisk(cfg, r)

\* one iteration of a routes loop of scan_network, up to the quote
InitFilter ==
  /\ EngineOff
  /\ RouteIdle
  /\ ClientIdle
  /\ \E cfg \in FilterCfgs, r \in CrossDexRoutes \cup TriangleRoutes :
       fn_in = Some([cfg |-> cfg, route |-> r])
  /\ fn_out = None

\* route.rs lines 251-302 and 392-444: the filters, then the counter
FilterRoute ==
  /\ fn_in # None
  /\ fn_out = None
  /\ fn_out' = IF RouteSkipped(fn_in[1].cfg, fn_in[1].route)
               THEN Some([stage |-> "skipped", routes_scanned |-> 0, quote_calls |-> 0])
               ELSE Some([stage |-> "counted", routes_scanned |-> 1, quote_calls |-> 0])
  /\ UNCHANGED fn_in

\* route.rs lines 303-341 and 445-447: addr_of of every symbol, the dex
\* lookup and the call of quote_cross_dex_pair; a triangle is not quoted
AfterFilter ==
  /\ fn_out # None
  /\ fn_out[1].stage = "counted"
  /\ LET r == fn_in[1].route
     IN  IF \E i \in 1..Len(r.syms) : r.syms[i] \notin DOMAIN Tokens
         THEN fn_out' = Some([fn_out[1] EXCEPT !.stage = "error"])
         ELSE IF r.kind = "pair" /\ Len(r.dexes) >= 2
                 /\ r.dexes[1] \in NetDexes /\ r.dexes[2] \in NetDexes
         THEN fn_out' = Some([fn_out[1] EXCEPT !.stage = "quoted", !.quote_calls = 1])
         ELSE fn_out' = Some([fn_out[1] EXCEPT !.stage = "next"])
  /\ UNCHANGED fn_in

NextFilter ==
  \/ FilterRoute /\ UNCHANGED <<engineVars, routeVars, failVars>>
  \/ AfterFilter /\ UNCHANGED <<engineVars, routeVars, failVars>>

SpecFilter == InitFilter /\ [][NextFilter]_vars

(* ========================== pre-quote filters =========================== *)

\* a token of the route has an address that equals a blacklist entry,
\* letter case aside
Blacklisted(in) ==
  \E i \in 1..Len(in.route.syms) :
    /\ in.route.syms[i] \in DOMAIN Tokens
    /\ \E x \in in.cfg.blacklist_tokens : Lower(x) = Lower(Tokens[in.route.syms[i]])

\* an enabled allow-list does not admit the route
NotAllowed(in) ==
  IF in.route.kind = "pair"
  THEN PairSkippedByStrategy(in.cfg, in.route)
  ELSE TriangleSkippedByStrategy(in.cfg, in.route)

\* C16: a route or triangle that the blacklist check or an enabled
\* allow-list check rejects is skipped: the routes-scanned counter is not
\* incremented for it and no quoting call is made for it.
C16_FilteredRouteCostsNothing ==
  (fn_in # None /\ fn_out # None /\ (Blacklisted(fn_in[1]) \/ NotAllowed(fn_in[1])))
    => /\ fn_out[1].stage = "skipped"
       /\ fn_out[1].routes_scanned = 0
       /\ fn_out[1].quote_calls = 0

\* a triangle whose third token only is blacklisted
C16_Witness ==
  /\ fn_in # None /\ fn_out # None
  /\ fn_in[1].route.kind = "triangle"
  /\ fn_in[1].cfg.strategy = None
  /\ fn_in[1].cfg.blacklist_tokens = {"0xcc"}
  /\ fn_in[1].route.syms = <<"USDC", "WETH", "DAI">>
  /\ fn_out[1].stage = "skipped"

(* ============================ quote_on_dex ============================== *)

\* C12: for every adapter, when the reads report a missing pool or pair
\* (zero address) or a zero output, quote_on_dex returns not-found (Ok(None))
\* and not an error.
C12_MissingPoolIsNotFound ==
  (fn_in # None /\ fn_out # None /\ MissingOrZero(fn_in[1].dex, fn_in[1].amount_in))
    => fn_out[1].tag = "None"

LegAbsent == InEvents("leg_absent_none") \/ InEvents("leg_absent_err")

Executed == InEvents("execute_ok") \/ InEvents("execute_err")

\* C17: while SAFE_LAUNCH=1 or DRY_RUN=1 (run_mode() is Some) no candidate
\* is given to exec.execute.
C17_DryRunSendsNothing ==
  run_mode # None => (~Executed /\ sent = None /\ qpc # "execute")

\* DRY_RUN=1: the candidate was quoted, logged and simulated, and the
\* iteration ended without an execute call
C17_Witness ==
  /\ run_mode = Some("DRY")
  /\ qres = "Some"
  /\ InEvents("log_candidate")
  /\ InEvents("simulate")
  /\ qpc = "end"
  /\ ~Executed

\* C18: exec.execute is called only after exec.simulate was called for the
\* same candidate, with the payload simulate was given; and a candidate
\* whose simulate call failed is still given to exec.execute when dry-run is
\* off.
C18_SimulateThenExecute ==
  /\ Executed
       => /\ \E i, j \in 1..Len(events) :
               /\ i < j
               /\ events[i] = "simulate"
               /\ events[j] \in {"execute_ok", "execute_err"}
          /\ sent # None
          /\ sent = calldata
  /\ (InEvents("sim_reverted") /\ run_mode = None /\ qpc \in {"end", "idle"})
       => Executed

\* simulate failed and the transaction was sent all the same
C18_Witness ==
  /\ InEvents("sim_reverted")
  /\ InEvents("execute_ok")
  /\ sent # None
  /\ sent = calldata
  /\ qpc = "end"

(* ========================== the minimum profit ========================== *)

\* min_profit_bps of the chain's strategy override, 0 when absent
ClaimedMinProfitBps ==
  IF strategy_overrides = None THEN 0
  ELSE IF strategy_overrides[1].min_profit_bps = None THEN 0
  ELSE strategy_overrides[1].min_profit_bps[1]

\* amount_out - amount_in < amount_in * min_profit_bps / 10000 (U256
\* arithmetic: the quotient is truncated)
BelowMinProfit ==
  amount - amount_in < (amount_in * ClaimedMinProfitBps) \div 10000

\* C22: a quoted route whose gross profit is below
\* amount_in * min_profit_bps / 10000 is never logged as a candidate,
\* simulated or executed.
C22_BelowMinProfitNotCandidate ==
  (qres = "Some" /\ BelowMinProfit)
    => /\ ~InEvents("log_candidate")
       /\ ~InEvents("simulate")
       /\ ~Executed
       /\ qpc \notin {"simulate", "execute"}
       /\ calldata = None

\* the route was accepted by quote_cross_dex_pair with a profit of 1 where
\* the override asks for 2, and its iteration ended without a candidate
C22_Witness ==
  /\ qres = "Some"
  /\ route_kind = "pair"
  /\ amount_in = 100 /\ amount = 101
  /\ ClaimedMinProfitBps = 200
  /\ BelowMinProfit
  /\ qpc = "end"
  /\ events = <<"leg_some", "leg_some">>

(* ===================== the slippage of min_out_bps ====================== *)

\* C40: under a configuration that Config::validate accepts, the slippage
\* given to min_out_bps for a route (the global default or the network's
\* override) is at most 10000, and the subtraction 10000 - slippage_bps does
\* not underflow.
C40_SlippageAtMostDenominator ==
  /\ qpc = "gas" => NetworkSlippageBps <= BpsDenom
  /\ qres # "Panic"

(* ========================= the encoded payload ========================== *)

\* C23: the minimum-out field of the payload given to simulate and execute
\* is the route's minimum acceptable output after slippage,
\* min_out_bps(amount_out, slippage_bps).
C23_PayloadMinOutIsSlipped ==
  calldata # None
    => calldata[1].min_out = (amount * (10000 - NetworkSlippageBps)) \div 10000

(* ============================ amount_out_v2 ============================= *)

\* amount_out_v2 was called with positive reserves and a positive input
V2Called ==
  /\ fn_in # None /\ fn_out # None
  /\ fn_in[1].amount_in > 0 /\ fn_in[1].reserve_in > 0 /\ fn_in[1].reserve_out > 0

\* C24: for positive reserves and input and fee_bps in [0,10000), the output
\* out of amount_out_v2 never exceeds reserve_out and the trade creates no
\* value: (r_in + in) * (r_out - out) >= r_in * r_out.
C24_NoValueCreated ==
  V2Called
    => LET in == fn_in[1] out == fn_out[1]
       IN  /\ out >= 0
           /\ out <= in.reserve_out
           /\ WLeq(WMul(WFromInt(in.reserve_in), WFromInt(in.reserve_out)),
                   WMul(WFromInt(in.reserve_in + in.amount_in),
                        WFromInt(in.reserve_out - out)))

\* a trade without fee whose quotient is exact: the product is unchanged
C24_Witness ==
  /\ V2Called
  /\ fn_in[1] = [amount_in |-> 1, reserve_in |-> 1, reserve_out |-> 2, fee_bps |-> 0]
  /\ fn_out[1] = 1

\* C25: with equal reserves the output of amount_out_v2 is strictly below
\* the input, and it is positive exactly when in * (10000 - fee) * r_out
\* reaches r_in * 10000 + in * (10000 - fee); reserves (1,000,000,
\* 1,000,000), fee 30 and input 1,000 give 996.
C25_EqualReserves ==
  (V2Called /\ fn_in[1].reserve_in = fn_in[1].reserve_out)
    => LET in == fn_in[1] out == fn_out[1]
           withFee == WMul(WFromInt(in.amount_in), WFromInt(10000 - in.fee_bps))
       IN  /\ out < in.amount_in
           /\ out > 0 <=> WLeq(WAdd(WMul(WFromInt(in.reserve_in), WFromInt(10000)), withFee),
                               WMul(withFee, WFromInt(in.reserve_out)))
           /\ (in.reserve_in = 1000000 /\ in.fee_bps = 30 /\ in.amount_in = 1000)
                => (out = 996 /\ 0 < out /\ out < 1000)

\* the call of the test test_amount_out_v2_basic
C25_Witness ==
  /\ V2Called
  /\ fn_in[1] = [amount_in |-> 1000, reserve_in |-> 1000000,
                  reserve_out |-> 1000000, fee_bps |-> 30]
  /\ fn_out[1] = 996

(* ============================= min_out_bps ============================== *)

\* min_out_bps was called for one positive amount with slippage b1 and then
\* with a larger slippage b2
TwoSlippages ==
  /\ fn_in # None /\ Len(fn_out) = 2
  /\ fn_in[1].quoted_out > 0
  /\ fn_in[1].slippage_bps[1] < fn_in[1].slippage_bps[2]

\* C26 as stated: min_out_bps(q, bps) is strictly decreasing in bps for
\* every q > 0 and 0 <= b1 < b2 <= 10000.
C26_StrictlyDecreasing ==
  TwoSlippages => fn_out[1] > fn_out[2]

\* C26 amended: min_out_bps(q, bps) is non-increasing in bps; it is strictly
\* smaller for the larger slippage whenever q * (b2 - b1) >= 10000; and
\* min_out_bps(q, 0) = q.
C26_NonIncreasing ==
  /\ TwoSlippages
       => /\ fn_out[1] >= fn_out[2]
          /\ fn_in[1].quoted_out * (fn_in[1].slippage_bps[2] - fn_in[1].slippage_bps[1])
                >= 10000
              => fn_out[1] > fn_out[2]
  /\ (fn_in # None /\ Len(fn_out) >= 1 /\ fn_in[1].slippage_bps[1] = 0)
       => fn_out[1] = fn_in[1].quoted_out

\* an amount of 1 with slippage 1 and 2: both results are 0
C26_Witness ==
  /\ TwoSlippages
  /\ fn_in[1].quoted_out = 1
  /\ fn_in[1].slippage_bps = <<1, 2>>
  /\ fn_out = <<0, 0>>

(* ===================== quote_on_dex: the v3 arm ========================= *)

\* quote_on_dex was called for a v3 dex with a factory and a router address
V3Called ==
  /\ fn_in # None /\ fn_out # None
  /\ fn_in[1].cfg.factory
  /\ fn_in[1].cfg.swap_router02 \/ fn_in[1].cfg.universal_router \/ fn_in[1].cfg.router

\* the descriptor yields no quoter reference: the hint is unset or false, or
\* it is set and neither swap_router02 nor universal_router is present
NoQuoterReference(c) ==
  \/ c.quoter_v2_hint = None
  \/ c.quoter_v2_hint = Some(FALSE)
  \/ ~c.swap_router02 /\ ~c.universal_router

\* C28: for a v3 dex whose descriptor yields no quoter reference
\* quote_on_dex returns Ok(None) and reads no tier (no quoter is called).
C28_NoQuoterIsNoLiquidity ==
  (V3Called /\ NoQuoterReference(fn_in[1].cfg))
    => (fn_out[1].tag = "None" /\ fn_out[1].visited = 0)

\* the answers of the chain for the tiers in listed order
ListedReads ==
  LET fees == IF fn_in[1].fee_tiers_bps = None THEN <<3000>> ELSE fn_in[1].fee_tiers_bps[1]
  IN  [i \in 1..Len(fees) |-> fn_in[1].answers[fees[i]]]

\* the first listed tier that has a pool and a non-zero quote, 0 for none
FirstFit ==
  LET fit == {i \in 1..Len(ListedReads) : ListedReads[i] = "quoted"}
  IN  IF fit = {} THEN 0 ELSE CHOOSE i \in fit : \A j \in fit : i <= j

\* the quoter is known and no read failed up to the first fit
TiersRead ==
  /\ V3Called
  /\ fn_in[1].cfg.quoter_v2_hint = Some(TRUE)
  /\ fn_in[1].cfg.swap_router02 \/ fn_in[1].cfg.universal_router
  /\ \A i \in 1..Len(ListedReads) :
       (FirstFit = 0 \/ i <= FirstFit) => ListedReads[i] # "rpc_err"

\* C29: the v3 arm is first-fit over the fee tiers in listed order: it
\* returns the first tier that has a pool and a non-zero quote and reads no
\* later tier, and it returns Ok(None) after reading every tier when none
\* qualifies.
C29_FirstFit ==
  TiersRead
    => IF FirstFit = 0
       THEN fn_out[1].tag = "None" /\ fn_out[1].visited = Len(ListedReads)
       ELSE /\ fn_out[1].tag = "Some"
            /\ fn_out[1].out = fn_in[1].quoted
            /\ fn_out[1].tier = FirstFit
            /\ fn_out[1].visited = FirstFit

\* the tiers are listed as 3000, 500; the pool of fee 500 quotes too, and
\* the tier of fee 3000 is returned
C29_Witness ==
  /\ TiersRead
  /\ fn_in[1].fee_tiers_bps = Some(<<3000, 500>>)
  /\ fn_in[1].answers[3000] = "quoted"
  /\ fn_in[1].answers[500] = "quoted"
  /\ fn_out[1].tag = "Some"
  /\ fn_out[1].tier = 1
  /\ fn_out[1].visited = 1

(* ============================ returned routes =========================== *)

\* C27: a route returned by quote_cross_dex_pair has exactly 2 legs and one
\* returned by quote_triangle exactly 3; the output token of each leg is the
\* input token of the next, the last leg's output token is the token the
\* first leg starts from, the first leg is quoted with the route's
\* amount_in, each later leg with the output of the leg before it, and the
\* route's amount_out is the output of the last leg.
C27_LegsChain ==
  (fn_in # None /\ fn_out # None /\ fn_out[1].tag = "Some")
    => LET legs_ == fn_out[1].legs
           n == Len(legs_)
       IN  /\ n = (IF "pair" \in DOMAIN fn_in[1] THEN 2 ELSE 3)
           /\ \A i \in 1..(n - 1) :
                /\ legs_[i].token_out = legs_[i + 1].token_in
                /\ legs_[i + 1].amount_in = legs_[i].amount_out
           /\ legs_[n].token_out = legs_[1].token_in
           /\ legs_[1].amount_in = fn_in[1].amount_in
           /\ legs_[n].amount_out = fn_out[1].out
           /\ legs_[1].token_in =
                (IF "pair" \in DOMAIN fn_in[1] THEN fn_in[1].pair[1] ELSE fn_in[1].tri[1])

\* a triangle was returned: USDC -> WETH -> DAI -> USDC
C27_Witness ==
  /\ fn_in # None /\ fn_out # None
  /\ "tri" \in DOMAIN fn_in[1]
  /\ fn_out[1].tag = "Some"
  /\ Len(fn_out[1].legs) = 3
  /\ fn_out[1].legs[3].token_in = "DAI"
  /\ fn_out[1].legs[3].token_out = "USDC"

(* ========================= execute_with_opts ============================ *)

\* the gas price the claim has execute_with_opts start from, before jitter
ClaimedFold(in) ==
  LET o == in.opts
  IN  IF o.max_fee_per_gas # None /\ o.max_priority_fee_per_gas # None
      THEN LET cap == o.max_fee_per_gas[1]
               sum == in.basefee + o.max_priority_fee_per_gas[1]
           IN  Some(IF cap < sum THEN cap ELSE sum)
      ELSE o.legacy_gas_price

\* C30: the transaction execute_with_opts sends carries a gas price derived
\* from min(max_fee, base_fee + tip) when both EIP-1559 fields are given
\* (whatever legacy_gas_price is), from legacy_gas_price when one of them is
\* missing, and none when that is missing too; the jitter moves the folded
\* price by at most jitter_bps / 10000 of it, and without jitter the folded
\* price is sent as it is.
C30_GasPriceFolded ==
  (fn_in # None /\ fn_out # None /\ fn_out[1].sent)
    => LET fold == ClaimedFold(fn_in[1])
           jit == fn_in[1].opts.gas_jitter
           gp == fn_out[1].gas_price
       IN  IF fold = None THEN gp = None
           ELSE /\ gp # None
                /\ jit = None => gp = fold
                /\ jit # None =>
                     LET delta == (fold[1] * jit[1]) \div 10000
                     IN  gp[1] <= fold[1] + delta /\ gp[1] + delta >= fold[1]

\* both EIP-1559 fields and a legacy price are given, base fee + tip is above
\* max_fee, and the jitter raised the folded price of 20 to 22
C30_Witness ==
  /\ fn_in # None /\ fn_out # None
  /\ fn_in[1].opts = [max_fee_per_gas |-> Some(20), max_priority_fee_per_gas |-> Some(5),
                       legacy_gas_price |-> Some(7), gas_jitter |-> Some(1000)]
  /\ fn_in[1].basefee = 30
  /\ fn_out[1].sent
  /\ fn_out[1].gas_price = Some(22)

(* ========================== ensure_approvals ============================ *)

\* kinds of the transactions of an entry of the log, in the order sent
TxKinds(e) == [i \in 1..Len(e.txs) |-> e.txs[i].kind]

\* C31: outside dry-run, for a pair whose allowance was read and is below
\* the minimum, a Permit2 approve comes first when net.permit2 is an address,
\* and a direct ERC-20 approve of U256::MAX is sent exactly when there is no
\* Permit2 address or the Permit2 send failed; a pair whose allowance is at
\* or above the minimum gets no transaction.
C31_Permit2ThenDirect ==
  (fn_in # None /\ "permit2" \in DOMAIN fn_in[1] /\ ~fn_in[1].dry)
    => \A i \in 1..Len(fn_out[1].events) :
         LET e == fn_out[1].events[i]
             configured == fn_in[1].permit2 = "0xp2"
         IN  /\ (e.allowance # None /\ e.allowance[1] >= fn_in[1].min_allowance)
                  => e.txs = <<>>
             /\ (e.allowance # None /\ e.allowance[1] < fn_in[1].min_allowance)
                  => /\ configured => (e.txs # <<>> /\ e.txs[1].kind = "permit2")
                     /\ (\E j \in 1..Len(e.txs) : e.txs[j].kind = "erc20")
                          <=> (~configured \/ e.txs[1].sent = "Err")
                     /\ \A j \in 1..Len(e.txs) :
                          e.txs[j].kind = "erc20"
                            => (e.txs[j].amount = "u256_max" /\ j = Len(e.txs))

\* with Permit2 configured, one pair's Permit2 approve failed and fell back
\* to a direct approve, the next pair's Permit2 approve went through, and a
\* pair with enough allowance got nothing
C31_Witness ==
  /\ fn_in # None /\ "permit2" \in DOMAIN fn_in[1]
  /\ ~fn_in[1].dry /\ fn_in[1].permit2 = "0xp2"
  /\ fn_out[1].tag = "Ok"
  /\ Len(fn_out[1].events) = 4
  /\ TxKinds(fn_out[1].events[1]) = <<"permit2", "erc20">>
  /\ TxKinds(fn_out[1].events[2]) = <<"permit2">>
  /\ fn_out[1].events[3].allowance = Some(2) /\ fn_out[1].events[3].txs = <<>>

(* ============================ quote_triangle ============================ *)

\* a sequence without its repeated elements, first occurrences kept
RECURSIVE Distinct(_, _)
Distinct(q, seen) ==
  IF q = <<>> THEN <<>>
  ELSE IF Head(q) \in seen THEN Distinct(Tail(q), seen)
  ELSE <<Head(q)>> \o Distinct(Tail(q), seen \cup {Head(q)})

\* The trial order as the claim words it: the configured exchanges the
\* preferred list names, in that order, then every other configured
\* exchange in declared order, each exchange once.
ClaimedOrder(in) ==
  LET named == SelectSeq(in.preferred, LAMBDA n : \E i \in 1..Len(in.dexes) : in.dexes[i] = n)
      first == [k \in 1..Len(named) |->
                  CHOOSE i \in 1..Len(in.dexes) :
                    /\ in.dexes[i] = named[k]
                    /\ \A j \in 1..(i - 1) : in.dexes[j] # named[k]]
      all   == first \o [i \in 1..Len(in.dexes) |-> i]
  IN  Distinct(all, {})

\* the exchanges the claim has a leg try: the claimed order up to the first
\* exchange that quotes the leg, all of it when none does
ClaimedTrials(in, leg) ==
  LET order == ClaimedOrder(in)
      hits  == {k \in 1..Len(order) : in.found[leg][order[k]]}
  IN  IF hits = {} THEN order
      ELSE SubSeq(order, 1, CHOOSE k \in hits : \A h \in hits : k <= h)

\* C14: on every leg quote_triangle reaches, the exchanges tried are the
\* preferred exchanges that are configured, in preferred-list order, then
\* the remaining configured exchanges in declared order, each once, up to
\* and including the first one that quotes the leg.
C14_TrialOrder ==
  (fn_in # None /\ fn_out # None)
    => \A leg \in 1..Len(fn_out[1].trials) :
         fn_out[1].trials[leg] = ClaimedTrials(fn_in[1], leg)

\* the positions in net.dexes that the trial order holds
TrialSet(in) ==
  LET order == DexOrder(in.preferred, in.dexes)
  IN  {order[k] : k \in 1..Len(order)}

\* C15: when for some leg no exchange of the trial order has a pool that
\* quotes it (and every leg before it was quoted), quote_triangle returns
\* not-found and that leg is the last one it quoted.
C15_LegWithoutQuoteAborts ==
  (fn_in # None /\ fn_out # None)
    => \A leg \in 1..3 :
         (/\ \A i \in TrialSet(fn_in[1]) : ~fn_in[1].found[leg][i]
          /\ \A l \in 1..(leg - 1) : \E i \in TrialSet(fn_in[1]) : fn_in[1].found[l][i])
           => /\ fn_out[1].tag = "None"
              /\ Len(fn_out[1].trials) = leg

(* ========================= endpoint failover ============================ *)

AllUrlsOk == \A i \in 0..(endpoints - 1) : url_ok[i]

LastTry(c) == tried[c][Len(tried[c])]

AllTransient(c) == \A i \in 1..Len(tried[c]) : tried[c][i].cls = "transient"

\* every attempt on an endpoint before the last one failed transiently and
\* every attempt on the last endpoint succeeded
FirstFailLastSucceeds(c) ==
  \A i \in 1..Len(tried[c]) :
    tried[c][i].cls = (IF tried[c][i].ep = endpoints - 1 THEN "ok" ELSE "transient")

\* C7: a single caller, N endpoints that all build a provider, the active
\* index 0 when the call begins; if the operation fails transiently on every
\* endpoint before the Nth and succeeds on the Nth, the finished call returns
\* Ok after at most N invocations of the operation and the active index and
\* the provider are those of endpoint N-1.
C7_SucceedsOnLastEndpoint ==
  \A c \in callers :
    (/\ callers = {c}
     /\ fpc[c] = "done"
     /\ AllUrlsOk
     /\ tried[c][1].ep = 0
     /\ FirstFailLastSucceeds(c))
      => /\ result[c].tag = "Ok"
         /\ Len(tried[c]) <= endpoints
         /\ current_index = endpoints - 1
         /\ provider = endpoints - 1

\* three endpoints, two transient failures, success on the third
C7_Witness ==
  /\ callers = {"a"}
  /\ endpoints = 3
  /\ fpc["a"] = "done"
  /\ AllUrlsOk
  /\ tried["a"][1].ep = 0
  /\ FirstFailLastSucceeds("a")
  /\ Len(tried["a"]) = 3
  /\ result["a"].tag = "Ok"
  /\ current_index = 2

\* C8: for a single caller, a call whose every attempt failed transiently
\* and that returned an error has invoked the operation exactly N times, on
\* the N endpoints in cyclic order from the index that was active when the
\* call began.
C8_FailsOnlyAfterAllTried ==
  \A c \in callers :
    (/\ callers = {c}
     /\ fpc[c] = "done"
     /\ result[c].tag = "Err"
     /\ AllTransient(c))
      => /\ Len(tried[c]) = endpoints
         /\ \A i \in 1..Len(tried[c]) :
              tried[c][i].ep = (tried[c][1].ep + (i - 1)) % endpoints

\* C9: with several calls in flight on a client whose endpoints all build a
\* provider, a call whose every attempt failed transiently and that returned
\* an error has attempted each of the N endpoints, each of them once.
C9_ConcurrentCallsTryEveryEndpoint ==
  \A c \in callers :
    (/\ fpc[c] = "done"
     /\ result[c].tag = "Err"
     /\ AllUrlsOk
     /\ AllTransient(c))
      => /\ {tried[c][i].ep : i \in 1..Len(tried[c])} = 0..(endpoints - 1)
         /\ Len(tried[c]) = endpoints

\* C10: an attempt that failed with a non-transient error is the last of its
\* call: the call is over and returns that error, no switch_provider call
\* followed the attempt, and the step that took the error left current_index
\* and the provider as they were.
C10_FatalErrorPropagates ==
  /\ [](\A c \in callers :
          (tried[c] # <<>> /\ LastTry(c).cls = "fatal")
            => /\ fpc[c] = "done"
               /\ result[c].tag = "Err"
               /\ ClassOf(result[c]) = "fatal"
               /\ iter[c] = Len(tried[c]) - 1
               /\ current_index = LastTry(c).ep
               /\ provider = LastTry(c).ep)
  /\ [][\A c \in callers :
          (tried'[c] # tried[c] /\ tried'[c] # <<>> /\ tried'[c][Len(tried'[c])].cls = "fatal")
            => /\ current_index' = current_index
               /\ provider' = provider]_vars

\* a non-transient error on the second endpoint, after one failover
C10_Witness ==
  /\ fpc["a"] = "done"
  /\ Len(tried["a"]) = 2
  /\ tried["a"][1].cls = "transient"
  /\ LastTry("a").cls = "fatal"
  /\ result["a"].tag = "Err"
  /\ current_index = 1

\* C11: for a single caller, after a call that began on endpoint i, failed
\* over and returned Ok on endpoint k, the first attempt of the next call is
\* made on endpoint k.
C11_IndexPersists ==
  \A c \in callers :
    (/\ callers = {c}
     /\ prev # None
     /\ tried[c] # <<>>)
      => (prev[1].tag = "Ok" /\ prev[1].from # prev[1].to
            => tried[c][1].ep = prev[1].to)

\* the first call went from endpoint 0 to endpoint 2; the second starts on 2
C11_Witness ==
  /\ callers = {"a"}
  /\ prev # None
  /\ tried["a"] # <<>>
  /\ prev[1].tag = "Ok"
  /\ prev[1].from = 0
  /\ prev[1].to = 2
  /\ tried["a"][1].ep = 2

\* C38: with any number of calls in flight, current_index is one of
\* 0..N-1 and the stored provider is the one built for
\* endpoints[current_index]; the index is 0 at start-up and only the second
\* critical section of switch_provider changes it, to the index that call
\* read.
C38_IndexAndProviderAgree ==
  /\ (current_index = 0 /\ provider = 0)
  /\ [](current_index \in 0..(endpoints - 1) /\ provider = current_index)
  /\ [][(current_index' # current_index \/ provider' # provider)
          => \E c \in callers :
               /\ fpc[c] = "sw_write" /\ fpc'[c] = "top"
               /\ current_index' = next_idx[c]
               /\ next_idx[c] \in 0..(endpoints - 1)]_vars

\* two calls failed over at the same time: both read index 0, both stored
\* index 1 and its provider
C38_Witness ==
  /\ callers = {"a", "b"}
  /\ endpoints = 3
  /\ iter["a"] = 1 /\ iter["b"] = 1
  /\ current_index = 1 /\ provider = 1

\* C39: for a single caller, a call in which the operation was run on all N
\* endpoints and failed transiently on each returns an error after N
\* switches, and the active index and provider are again those the call
\* began with.
C39_IndexBackAtStart ==
  \A c \in callers :
    (/\ callers = {c}
     /\ fpc[c] = "done"
     /\ Len(tried[c]) = endpoints
     /\ AllTransient(c))
      => /\ result[c].tag = "Err"
         /\ iter[c] = endpoints
         /\ current_index = tried[c][1].ep
         /\ provider = tried[c][1].ep

\* a call that began on endpoint 1 of 3 failed on 1, 2 and 0 and left the
\* client on endpoint 1
C39_Witness ==
  /\ callers = {"a"}
  /\ endpoints = 3
  /\ fpc["a"] = "done"
  /\ Len(tried["a"]) = 3
  /\ AllTransient("a")
  /\ tried["a"][1].ep = 1
  /\ current_index = 1

(* ======================= the circuit breaker ============================ *)

Skipped == scan.result \in {"skipped_cooldown", "skipped_tripped"}

\* C2: a scan_network call entered while the breaker is Tripped
\* (consec_losses >= max_losses_in_row) or in Cooldown (a loss recorded less
\* than cooldown_sec ago) is skipped: it makes no quoting call, no simulate
\* call and no execute call.
C2_NoCallsWhileHalted ==
  (scan.result # "none" /\ (scan.entryTripped \/ scan.entryCooldown))
    => /\ Skipped
       /\ scan.quotes = 0 /\ scan.logs = 0
       /\ scan.sims = 0 /\ scan.execs = 0

\* the scan that follows exactly max_losses_in_row (here two or more) losses,
\* entered after the cooldown window has closed, was skipped
C2_Witness ==
  /\ scan.result = "skipped_tripped"
  /\ max_losses_in_row >= 2
  /\ scan.entryLosses = max_losses_in_row
  /\ ~scan.entryCooldown

\* C3: after a chain scan that contained a successful execution the counter
\* is 0 and the timestamp is cleared.
C3_SuccessResets ==
  (scan.result \in {"done", "error"} /\ scan.execOk >= 1)
    => (consec_losses = 0 /\ last_loss_ts = None)

C5_ResumesAfterCooldown ==
  (Skipped /\ last_loss_ts # None) => scan.entryCooldown

\* C6 as stated: right after a loss (no time has passed since on_loss)
\* should_cooldown is true whatever cooldown_sec is configured.
C6_TrueRightAfterLoss ==
  (last_loss_ts # None /\ now = last_loss_ts[1]) => ShouldCooldown(cooldown_sec)

\* C6 amended: after a loss should_cooldown(cooldown_sec) is true exactly
\* while the time elapsed since the loss is below cooldown_sec; right after
\* the loss it is true when cooldown_sec >= 1; and it turns false by the
\* passage of time alone, the tracker being left as it is.
C6_CooldownWindow ==
  /\ [](last_loss_ts # None =>
         /\ ShouldCooldown(cooldown_sec) <=> (now - last_loss_ts[1] < cooldown_sec)
         /\ (cooldown_sec >= 1 /\ now = last_loss_ts[1]) => ShouldCooldown(cooldown_sec))
  /\ [][(ShouldCooldown(cooldown_sec) /\ ~ShouldCooldown(cooldown_sec)')
          => (UNCHANGED pnlVars /\ now' > now)]_vars

\* the window of a cooldown of at least one second has just closed
C6_Witness ==
  /\ last_loss_ts # None
  /\ cooldown_sec >= 1
  /\ now - last_loss_ts[1] = cooldown_sec
  /\ ~ShouldCooldown(cooldown_sec)

\* a simulate or an execute call of the scan failed
CallFailed(sc) == sc.simErr >= 1 \/ sc.execs > sc.execOk

\* C19: a chain scan in which a simulate call or an execute call failed is
\* recorded as a loss: when the scan ends consec_losses is one more than
\* before.
C19_FailedCallIsLoss ==
  [][(scan.result = "running" /\ scan'.result \in {"done", "error"}
        /\ CallFailed(scan'))
       => consec_losses' = consec_losses + 1]_vars

\* C33: a scan_network call that is skipped at the cooldown gate or at the
\* max-losses gate leaves consec_losses and last_loss_ts as they were.
C33_SkipLeavesTracker ==
  [][(pc = "chain" /\ chainIdx' # chainIdx /\ Skipped')
       => (consec_losses' = consec_losses /\ last_loss_ts' = last_loss_ts)]_vars

\* a scan skipped in the second after the loss: the counter is as at entry
\* and the timestamp is still that of the loss
C33_Witness ==
  /\ scan.result = "skipped_cooldown"
  /\ consec_losses = scan.entryLosses
  /\ last_loss_ts # None
  /\ now = last_loss_ts[1] + 1

\* the scan of the chain before chainIdx, in this tick, recorded a loss or
\* was itself skipped for the cooldown
LossBefore ==
  /\ pc = "chain" /\ chainIdx > 1 /\ scan.chain = chainIdx - 1
  /\ \/ scan.result = "done" /\ ~any_success
     \/ scan.result = "skipped_cooldown"

\* C34: the chains of a tick are scanned one after the other in configured
\* order against one tracker: once the scan of a chain has recorded a loss
\* and cooldown_sec > 0, the scan of each later chain of the tick, which
\* starts with no await in between and so at the clock reading of the loss,
\* is skipped at the cooldown gate and makes no quoting call.
C34_LaterChainsSkipped ==
  /\ [][chainIdx' # chainIdx
          => chainIdx' = (IF pc = "sleep" THEN 1 ELSE chainIdx + 1)]_vars
  /\ [][(LossBefore /\ cooldown_sec > 0 /\ chainIdx <= NumChains
           /\ last_loss_ts # None /\ now = last_loss_ts[1]
           /\ (pc' = "routes" \/ chainIdx' # chainIdx))
          => /\ scan'.chain = chainIdx
             /\ scan'.result = "skipped_cooldown"
             /\ scan'.quotes = 0
             /\ pc' = "chain"
             /\ UNCHANGED pnlVars]_vars

\* the first chain of the tick recorded a first loss and the second chain
\* was skipped for it, below max_losses_in_row
C34_Witness ==
  /\ pc = "chain" /\ chainIdx = 3
  /\ scan.chain = 2
  /\ scan.result = "skipped_cooldown"
  /\ scan.entryLosses = 1 /\ ~scan.entryTripped
  /\ last_loss_ts = Some(now)

\* C35: while run_mode() is Some (DRY_RUN or SAFE_LAUNCH), and on a chain
\* that has no executor, a scan that is neither skipped nor ended by an
\* error sends nothing and ends with on_loss; in a dry run the counter
\* therefore never goes down, and max_losses_in_row such scans trip the
\* breaker.
C35_DryRunOnlyLoses ==
  /\ [][(scan.result = "running" /\ scan'.result = "done"
           /\ (run_mode # None \/ scan.chain \notin executors))
          => /\ scan'.execs = 0
             /\ consec_losses' = consec_losses + 1
             /\ last_loss_ts' = Some(now)]_vars
  /\ [][run_mode # None => consec_losses' >= consec_losses]_vars

\* a dry run on a chain with an executor: the second scan that simulated a
\* candidate and sent nothing has tripped the breaker
C35_Witness ==
  /\ run_mode = Some("DRY")
  /\ scan.result = "done"
  /\ scan.chain \in executors
  /\ scan.sims >= 1 /\ scan.execs = 0
  /\ max_losses_in_row = 2 /\ consec_losses = 2

\* C36: a scan_network call that returns an error leaves consec_losses and
\* last_loss_ts exactly as they were when the scan was entered.
C36_ErrorLeavesTracker ==
  /\ [][(scan.result = "running" /\ scan'.result = "error")
          => (consec_losses' = consec_losses /\ last_loss_ts' = last_loss_ts)]_vars
  /\ [](scan.result \in {"running", "error"} => consec_losses = scan.entryLosses)

\* a scan entered with one loss on record failed while quoting, a second
\* later, and the tracker still shows that one loss and its time
C36_Witness ==
  /\ scan.result = "error"
  /\ scan.quotes >= 1
  /\ scan.entryLosses = 1
  /\ consec_losses = 1
  /\ last_loss_ts # None /\ last_loss_ts[1] < now

\* C32: last_loss_ts is set exactly when consec_losses > 0, and the two
\* fields change only at the end of a scan that returns Ok: on_success
\* clears both, on_loss adds one to the counter and stores the current time.
C32_StampIffLosses ==
  /\ []((last_loss_ts # None) <=> (consec_losses > 0))
  /\ [][(consec_losses' # consec_losses \/ last_loss_ts' # last_loss_ts)
          => /\ scan.result = "running" /\ scan'.result = "done"
             /\ \/ consec_losses' = 0 /\ last_loss_ts' = None
                \/ consec_losses' = consec_losses + 1 /\ last_loss_ts' = Some(now)]_vars

\* a success after a loss has cleared both fields
C32_Witness ==
  /\ scan.result = "done"
  /\ scan.entryLosses = 1
  /\ scan.execOk >= 1
  /\ consec_losses = 0
  /\ last_loss_ts = None

(* ============================ the main loop ============================= *)

\* scan_and_execute has returned an error and no tick has started since
ScanFailed == scan.result = "error" /\ pc # "chain"

\* C20: while no termination signal arrives, a scan_and_execute call that
\* returns an error leaves the main loop in its poll sleep, and a next tick
\* eventually starts.
C20_NextTickAfterError ==
  /\ [][(scan.result # "error" /\ scan'.result = "error") => pc' = "sleep"]_vars
  /\ (ScanFailed ~> (pc = "chain" /\ chainIdx = 1))

\* the tick after a failed scan has started; the failed scan is still the
\* last one observed
C20_Witness ==
  /\ scan.result = "error"
  /\ pc = "chain"
  /\ chainIdx = 1

\* C37: when scan_network returns an error for a chain that is not the
\* last, scan_and_execute goes on with the next configured chain in the same
\* tick.
C37_LaterChainsStillScanned ==
  [][(scan.result = "running" /\ scan'.result = "error" /\ scan.chain < NumChains)
       => (pc' = "chain" /\ chainIdx' = scan.chain + 1)]_vars

\* C21: a termination signal that arrives while a chain scan is in progress
\* does not cancel the scan: the main loop does not exit from inside a
\* running scan_network call.
C21_ShutdownWaitsForScan ==
  [][(scan.result = "running" /\ pc = "routes") => pc' # "stopped"]_vars

====
